---------------------------- MODULE Spec2Model ----------------------------
(***************************************************************************)
(* A model of the lunatic chess engine core: the transposition table       *)
(* (engine/src/table.rs) and the iterative-deepening search                *)
(* (engine/src/search/mod.rs, game_helpers.rs, moves.rs).                  *)
(*                                                                         *)
(* Option values are sequences: <<>> is None, <<x>> is Some(x).            *)
(***************************************************************************)
EXTENDS Integers, Sequences, FiniteSets, TLC

VARIABLES
    cache_table,   \* TranspositionTable: [table : 0..capacity-1 -> Option<(hash, entry)>, len, mask]
    t_op,          \* the last table call made through the public interface, with its result
    t_log          \* every set call made so far, in order: <<hash, entry>>

(***************************************************************************)
(* The state of a search and of the handler that hosts it.                 *)
(***************************************************************************)
VARIABLES
    s_pc,           \* where search() stands: "new", "for", "call", "pv", "done", "panic"
    board,          \* LunaticSearchState.board
    history,        \* LunaticSearchState.history
    halfmove_clock, \* LunaticSearchState.halfmove_clock
    killer_table,   \* LunaticSearchState.killer_table
    history_table,  \* LunaticSearchState.history_table
    sel_depth,      \* LunaticSearchState.sel_depth
    history_len,    \* search(): let history_len
    nodes,          \* search(): let mut nodes
    depth,          \* search(): the loop variable `depth`
    stack,          \* the frames of search_position / quiescence_search, the root first
    ret,            \* the value a frame has just returned to its caller, if any
    pv,             \* the locals of the principal-variation loop
    handler,        \* what the handler has been asked and told
    start_history,  \* the history as it was when search() was called
    options,        \* LunaticSearchState.options, the fields that differ between runs
    first_run       \* the values an earlier run from the same root reported, if any

svars == <<s_pc, board, history, halfmove_clock, killer_table, history_table, sel_depth,
           history_len, nodes, depth, stack, ret, pv, handler, start_history,
           options, first_run>>

(***************************************************************************)
(* The host's side: the value types, the time managers, the oracle and     *)
(* the evaluator are called through `call`, which holds the arguments and  *)
(* the result of the last call.                                            *)
(***************************************************************************)
VARIABLES
    call            \* the last call of a function of the engine's library, with its result

(***************************************************************************)
(* The UCI driver (uci/src/main.rs) and the thinker thread it talks to     *)
(* (interface.rs).                                                         *)
(***************************************************************************)
VARIABLES
    worker,         \* the thinker thread: where it stands, and the locals of its loop
    terminator,     \* SearchParams.terminator / SearchRequest.0, the Arc<AtomicBool>
    info_channel,   \* the std channel from the thinker to the forwarding thread
    search_stream,  \* the flume channel from the forwarding thread to EngineSearch
    search,         \* main(): let mut search: Option<EngineSearch>
    main_pc,        \* where the main loop stands: "select", "tail", or inside a terminate()
    uci             \* the current search as the GUI sees it: its time control, the
                    \* bestmoves printed for it, the last iteration the thinker completed,
                    \* the results the thinker sent and the lines printed, in order

dvars == <<worker, terminator, info_channel, search_stream, search, main_pc, uci>>

hvars == <<call, dvars>>

vars == <<cache_table, t_op, t_log, svars, hvars>>

(***************************************************************************)
(* Bounds of the transposition-table specification.                        *)
(***************************************************************************)
\* board hashes are drawn from 0..MaxHash (u64 in the source)
MaxHash == 3
\* entry depths are drawn from 0..MaxEntryDepth (u8 in the source)
MaxEntryDepth == 1
\* number of set calls in one behaviour
MaxWrites == 2
\* the `entries` argument of with_rounded_entries
TableEntries == 2

None == <<>>
Some(x) == <<x>>

NoPv == [mv |-> 0, value |-> 0, principal_variation |-> <<>>, board |-> 0,
         halfmove_clock |-> 0, next_move |-> None]

NoHandler == [results |-> <<>>, polls |-> 0, polled |-> FALSE, last_poll |-> 0,
              iterations |-> 0, up |-> FALSE]

SearchIdle ==
    /\ s_pc = "idle"
    /\ board = 0 /\ history = <<>> /\ halfmove_clock = 0
    /\ killer_table = <<>> /\ history_table = <<>> /\ sel_depth = 0
    /\ history_len = 0 /\ nodes = 0 /\ depth = 0
    /\ stack = <<>> /\ ret = None /\ pv = NoPv /\ handler = NoHandler
    /\ start_history = <<>>
    /\ options = [late_move_reduction |-> 0, null_move_pruning |-> FALSE] /\ first_run = None

NoCall == [fn |-> "none"]

WorkerIdle == [pc |-> "idle", has_moves |-> FALSE, depth |-> 0, search_result |-> None]

NoGo == [searches |-> 0, time_control |-> "None", bestmoves |-> <<>>, completed |-> None,
         sent |-> <<>>, output |-> <<>>]

\* main(): let mut search = None, the thinker waiting in thinker_recv.recv()
DriverIdle ==
    /\ worker = WorkerIdle
    /\ terminator = FALSE
    /\ info_channel = <<>>
    /\ search_stream = <<>>
    /\ search = None
    /\ main_pc = "select"
    /\ uci = NoGo

HostIdle == call = NoCall /\ DriverIdle

Kinds == {"Exact", "LowerBound", "UpperBound"}

(***************************************************************************)
(* Bit operations on naturals, as the source's `&` on usize.               *)
(***************************************************************************)
RECURSIVE BitAnd(_, _)
BitAnd(a, b) ==
    IF a = 0 \/ b = 0 THEN 0
    ELSE (IF a % 2 = 1 /\ b % 2 = 1 THEN 1 ELSE 0) + 2 * BitAnd(a \div 2, b \div 2)

RECURSIVE NextPowerOfTwoFrom(_, _)
NextPowerOfTwoFrom(p, n) == IF p >= n THEN p ELSE NextPowerOfTwoFrom(2 * p, n)

\* usize::checked_next_power_of_two: the smallest power of two >= n (1 for n = 0)
NextPowerOfTwo(n) == NextPowerOfTwoFrom(1, n)

(***************************************************************************)
(* TranspositionTable (table.rs)                                           *)
(***************************************************************************)
with_rounded_entries(entries) ==
    LET n == NextPowerOfTwo(entries) IN
    [table |-> [i \in 0..(n - 1) |-> None], len |-> 0, mask |-> n - 1]

capacity(t) == Cardinality(DOMAIN t.table)

SlotOf(t, hash) == BitAnd(hash, t.mask)

TableGetAnyHash(t, hash) ==
    LET slot == t.table[SlotOf(t, hash)] IN
    IF slot # None THEN Some(slot[1][2]) ELSE None

\* TranspositionTable::get
TableGet(t, hash) ==
    LET slot == t.table[SlotOf(t, hash)] IN
    IF slot # None
    THEN IF slot[1][1] = hash THEN Some(slot[1][2]) ELSE None
    ELSE None

ReplacesNotShallower(old, hash, entry) == old[1] = hash \/ entry.depth >= old[2].depth

ReplacesSameHashOnly(old, hash, entry) == old[1] = hash

\* the replacement test of TranspositionTable::set on an occupied slot
Replaces(old, hash, entry) == old[1] = hash \/ entry.depth > old[2].depth

\* a set that counts every write to a slot
TableSetCountingWrites(t, hash, entry) ==
    LET i == SlotOf(t, hash)
        old == t.table[i] IN
    IF old # None
    THEN IF Replaces(old[1], hash, entry)
         THEN [t EXCEPT !.len = t.len + 1, !.table[i] = Some(<<hash, entry>>)]
         ELSE t
    ELSE [t EXCEPT !.len = t.len + 1, !.table[i] = Some(<<hash, entry>>)]

\* TranspositionTable::set
TableSet(t, hash, entry) ==
    LET i == SlotOf(t, hash)
        old == t.table[i] IN
    IF old # None
    THEN IF Replaces(old[1], hash, entry)
         THEN [t EXCEPT !.table[i] = Some(<<hash, entry>>)]
         ELSE t
    ELSE [t EXCEPT !.len = t.len + 1, !.table[i] = Some(<<hash, entry>>)]

(***************************************************************************)
(* The table driven through its public interface with arbitrary calls.     *)
(***************************************************************************)
TableHashes == 0..MaxHash

TableInputs ==
    [kind : Kinds, value : {0}, depth : 0..MaxEntryDepth, best_move : {1}]

TableInit ==
    /\ cache_table = with_rounded_entries(TableEntries)
    /\ t_op = [op |-> "new"]
    /\ t_log = <<>>
    /\ SearchIdle
    /\ HostIdle

DoSet ==
    /\ Len(t_log) < MaxWrites
    /\ \E hash \in TableHashes, entry \in TableInputs :
        /\ cache_table' = TableSet(cache_table, hash, entry)
        /\ t_op' = [op |-> "set", hash |-> hash, entry |-> entry]
        /\ t_log' = Append(t_log, <<hash, entry>>)
    /\ UNCHANGED <<svars, hvars>>

DoGet ==
    /\ \E hash \in TableHashes :
        /\ t_op' = [op |-> "get", hash |-> hash, result |-> TableGet(cache_table, hash)]
        /\ UNCHANGED <<cache_table, t_log>>
    /\ UNCHANGED <<svars, hvars>>

TableNext == DoSet \/ DoGet

SpecTable == TableInit /\ [][TableNext]_vars

(***************************************************************************)
(* Claims about the transposition table (checked under SpecTable).         *)
(***************************************************************************)
\* the writes of the log whose hash maps to slot i
WritesTo(i) == {k \in 1..Len(t_log) : t_log[k][1] % capacity(cache_table) = i}

IsSetStep == t_log' # t_log

\* C1: set on an empty slot inserts the entry; on an occupied slot it
\* overwrites the resident iff the incoming hash equals the resident hash or
\* the incoming depth is strictly greater than the resident depth; otherwise
\* the slot, like every other slot, is left unchanged.
C1_SetReplacementRule ==
    [][IsSetStep =>
        LET h == t_op'.hash
            e == t_op'.entry
            i == h % capacity(cache_table)
            old == cache_table.table[i]
            new == cache_table'.table[i]
        IN  /\ \A j \in DOMAIN cache_table.table \ {i} :
                  cache_table'.table[j] = cache_table.table[j]
            /\ old = None => new = Some(<<h, e>>)
            /\ old # None =>
                  IF old[1][1] = h \/ e.depth > old[1][2].depth
                  THEN new = Some(<<h, e>>)
                  ELSE new = old
    ]_vars

\* C1 witness: a set call on an occupied slot that was refused.
C1_Witness ==
    /\ t_op.op = "set"
    /\ cache_table.table[t_op.hash % capacity(cache_table)] # Some(<<t_op.hash, t_op.entry>>)

\* C2 as stated: the resident entry of every slot has the maximum depth among
\* all writes whose hash mapped to that slot.
C2_ResidentHasMaxDepthOfAllWrites ==
    \A i \in DOMAIN cache_table.table :
        cache_table.table[i] # None =>
            \A k \in WritesTo(i) : t_log[k][2].depth <= cache_table.table[i][1][2].depth

\* C2 as amended: the resident entry of every slot is one of the writes mapped
\* to that slot, and every later write mapped to the slot carried another hash
\* and no greater depth; so its depth is the maximum from its own write
\* onward, while a write with the resident's hash replaces it at any depth.
C2_ResidentHasMaxDepthSinceItsWrite ==
    \A i \in DOMAIN cache_table.table :
        /\ cache_table.table[i] = None => WritesTo(i) = {}
        /\ cache_table.table[i] # None =>
            \E k \in WritesTo(i) :
                /\ t_log[k] = cache_table.table[i][1]
                /\ \A j \in WritesTo(i) :
                      j > k => /\ t_log[j][1] # t_log[k][1]
                               /\ t_log[j][2].depth <= t_log[k][2].depth

\* C2 witness: a slot whose resident is shallower than an earlier write to it.
C2_Witness ==
    \E i \in DOMAIN cache_table.table :
        /\ cache_table.table[i] # None
        /\ \E k \in WritesTo(i) : t_log[k][2].depth > cache_table.table[i][1][2].depth

\* C3: get(hash) returns Some(entry) iff the slot at hash & mask is occupied
\* and stores that very hash; the entry returned is the slot's, it was written
\* under the same hash, and the table is left unchanged.
C3_GetExactHashOnly ==
    [][(t_op' # t_op /\ t_op'.op = "get") =>
        LET h == t_op'.hash
            slot == cache_table.table[h % capacity(cache_table)]
            res == t_op'.result
        IN  /\ res # None <=> (slot # None /\ slot[1][1] = h)
            /\ res # None => /\ res[1] = slot[1][2]
                             /\ \E k \in 1..Len(t_log) : t_log[k] = <<h, res[1]>>
            /\ cache_table' = cache_table
    ]_vars

\* C3 witness: a get that misses although its slot is occupied (another hash).
C3_Witness ==
    /\ t_op.op = "get"
    /\ t_op.result = None
    /\ cache_table.table[t_op.hash % capacity(cache_table)] # None


(***************************************************************************)
(*                                                                         *)
(*                     The search (search/mod.rs)                          *)
(*                                                                         *)
(***************************************************************************)

(***************************************************************************)
(* Bounds and options of the search specification.                         *)
(***************************************************************************)
\* SearchOptions (search_defs.rs), the values the search is run with
max_depth == 5
late_move_reduction == 1
late_move_leeway == 1
null_move_reduction == 0
null_move_pruning == TRUE
\* the `entries` the cache of the search is built with
CacheEntries == 2
\* the longest move list replayed by LunaticSearchState::new
MaxReplay == 4
\* the source polls time_up when node_count % 4096 == 0; the model keeps the
\* test and scales the interval to the size of its trees
PollInterval == 4

\* Eval::MAX / Eval::MIN (the evaluation type's extreme values) and DRAW
EvalMAX == 2147483647
EvalMIN == -EvalMAX
DRAW == 0
\* the halfmove clock value of the fifty-move rule, and the minimum clock
\* for a repetition to be looked for
FiftyMoveClock == 100
RepetitionMinClock == 4

mated_in(plies) == -(EvalMAX - plies)

Max(a, b) == IF a >= b THEN a ELSE b
Min(a, b) == IF a <= b THEN a ELSE b

(***************************************************************************)
(* The chess library (external crate `chess`): boards, hashes, legal       *)
(* moves.  A fixed graph of abstract positions stands for it.  A move      *)
(* carries what the engine reads of it: `pawn` (a pawn stands on the       *)
(* source square), `capture` (a piece stands on the destination square),   *)
(* `see` (its static exchange evaluation), `hk` (its history-table cell:   *)
(* side, piece, destination).  A position carries its piece and pawn       *)
(* counts, whether the side to move is in check and owns a sliding piece,  *)
(* the position a null move leads to, the oracle's verdict and the         *)
(* evaluator's score.                                                      *)
(*   1 -1-> 2 -3-> 3 -4-> 4 -6-> 1 is a cycle of reversible moves;         *)
(*   9 is 1 with the other side to move, 12 is 5 with the other side to    *)
(*   move; 6 and 14 are checkmates, 8 and 13 stalemates;                   *)
(*   15 has two quiet moves: 15 -15-> 16 -17-> 13 and the line             *)
(*   15 -16-> 17 -18-> 18 -19-> 19 -20-> 20 -21-> 13, whose last two       *)
(*   positions are evaluated 300 and 500 for the side to move;             *)
(*   21 has every kind of move: the quiet moves 30 and 31, the captures    *)
(*   32 to 35 (static exchange evaluations 100, 0, -100, -200), the en     *)
(*   passant capture 36 onto an empty square (-> 22, a pawn less) and the  *)
(*   promotion 37 (-> 23).  Move 38 is legal nowhere here: it is a piece's *)
(*   move between the squares of the promotion 37; move 39 is legal        *)
(*   nowhere and shares its squares with no move;                          *)
(*   24 is 2 with the other side to move, which owns a sliding piece;      *)
(*   25 reaches 26 along two lines, 25 -41-> 27 -45-> 26 and               *)
(*   25 -42-> 29 -47-> 26; 27 has the move 44 besides, to 31 and then to   *)
(*   the stalemate 30, and 26 -43-> 28 wins 500 for the side to move at    *)
(*   26, which only a search of depth 1 sees;                              *)
(*   33 mates by 33 -52-> 32, stalemates by 33 -53-> 34, and reaches 26    *)
(*   along 33 -51-> 35 -54-> 26 and 33 -50-> 29 -47-> 26;                  *)
(*   36 -60-> 37 -61-> 38 -62-> 39 -63-> 40 -64-> 41 -65-> 13 is a line    *)
(*   in which the side that answers is in check twice, at 37 and at 39;    *)
(*   42 -66-> 36 is a capture that leads to the start of that line.        *)
(***************************************************************************)
Mv(id, to, pawn, capture, see, hk) ==
    [id |-> id, to |-> to, pawn |-> pawn, capture |-> capture, see |-> see, hk |-> hk]

Pos(moves, in_check, sliders, null, pieces, pawns, oracle, eval) ==
    [moves |-> moves, in_check |-> in_check, sliders |-> sliders, null |-> null,
     pieces |-> pieces, pawns |-> pawns, oracle |-> oracle, eval |-> eval]

Game == <<
    (* 1 *) Pos(<<Mv(1, 2, FALSE, FALSE, 0, 1), Mv(2, 5, FALSE, TRUE, 100, 2)>>,
                FALSE, TRUE, 9, 6, 2, FALSE, 20),
    (* 2 *) Pos(<<Mv(3, 3, FALSE, FALSE, 0, 3)>>, FALSE, FALSE, 0, 6, 2, FALSE, -20),
    (* 3 *) Pos(<<Mv(4, 4, FALSE, FALSE, 0, 4), Mv(5, 6, TRUE, FALSE, 0, 5)>>,
                FALSE, FALSE, 0, 6, 2, FALSE, 20),
    (* 4 *) Pos(<<Mv(6, 1, FALSE, FALSE, 0, 6)>>, FALSE, FALSE, 0, 6, 2, FALSE, -20),
    (* 5 *) Pos(<<Mv(7, 7, FALSE, FALSE, 0, 7), Mv(9, 8, FALSE, TRUE, -100, 8)>>,
                FALSE, TRUE, 12, 5, 1, FALSE, -120),
    (* 6 *) Pos(<<>>, TRUE, FALSE, 0, 6, 2, FALSE, 0),
    (* 7 *) Pos(<<Mv(11, 11, FALSE, FALSE, 0, 9)>>, TRUE, TRUE, 0, 5, 1, FALSE, 120),
    (* 8 *) Pos(<<>>, FALSE, FALSE, 0, 4, 1, FALSE, 0),
    (* 9 *) Pos(<<Mv(3, 10, FALSE, FALSE, 0, 3)>>, FALSE, TRUE, 1, 6, 2, FALSE, -20),
    (* 10 *) Pos(<<Mv(1, 3, FALSE, FALSE, 0, 1)>>, FALSE, FALSE, 0, 6, 2, FALSE, 20),
    (* 11 *) Pos(<<Mv(13, 13, FALSE, FALSE, 0, 10)>>, FALSE, FALSE, 0, 5, 1, TRUE, -120),
    (* 12 *) Pos(<<Mv(14, 14, FALSE, FALSE, 0, 11)>>, FALSE, TRUE, 5, 5, 1, FALSE, 120),
    (* 13 *) Pos(<<>>, FALSE, FALSE, 0, 5, 1, FALSE, 0),
    (* 14 *) Pos(<<>>, TRUE, FALSE, 0, 5, 1, FALSE, 0),
    (* 15 *) Pos(<<Mv(15, 16, FALSE, FALSE, 0, 1), Mv(16, 17, FALSE, FALSE, 0, 6)>>,
                 FALSE, FALSE, 0, 5, 1, FALSE, 0),
    (* 16 *) Pos(<<Mv(17, 13, FALSE, FALSE, 0, 3)>>, FALSE, FALSE, 0, 5, 1, FALSE, 0),
    (* 17 *) Pos(<<Mv(18, 18, FALSE, FALSE, 0, 4)>>, FALSE, FALSE, 0, 5, 1, FALSE, 0),
    (* 18 *) Pos(<<Mv(19, 19, FALSE, FALSE, 0, 7)>>, FALSE, FALSE, 0, 5, 1, FALSE, 0),
    (* 19 *) Pos(<<Mv(20, 20, FALSE, FALSE, 0, 9)>>, FALSE, FALSE, 0, 5, 1, FALSE, 300),
    (* 20 *) Pos(<<Mv(21, 13, FALSE, FALSE, 0, 10)>>, FALSE, FALSE, 0, 5, 1, FALSE, 500),
    (* 21 *) Pos(<<Mv(30, 13, FALSE, FALSE, 0, 12), Mv(31, 13, FALSE, FALSE, 0, 13),
                   Mv(32, 8, FALSE, TRUE, 100, 16), Mv(33, 8, FALSE, TRUE, 0, 17),
                   Mv(34, 8, FALSE, TRUE, -100, 18), Mv(35, 8, FALSE, TRUE, -200, 19),
                   Mv(36, 22, TRUE, FALSE, 100, 14), Mv(37, 23, TRUE, FALSE, 0, 15)>>,
                 FALSE, TRUE, 0, 5, 1, FALSE, 0),
    (* 22 *) Pos(<<>>, FALSE, FALSE, 0, 4, 0, FALSE, 0),
    (* 23 *) Pos(<<>>, FALSE, FALSE, 0, 5, 0, FALSE, 0),
    (* 24 *) Pos(<<Mv(40, 13, FALSE, FALSE, 0, 1)>>, FALSE, TRUE, 2, 6, 2, FALSE, 20),
    (* 25 *) Pos(<<Mv(42, 29, FALSE, FALSE, 0, 3), Mv(41, 27, FALSE, FALSE, 0, 1)>>,
                 FALSE, FALSE, 0, 5, 1, FALSE, 0),
    (* 26 *) Pos(<<Mv(43, 28, FALSE, FALSE, 0, 4)>>, FALSE, FALSE, 0, 5, 1, FALSE, 0),
    (* 27 *) Pos(<<Mv(45, 26, FALSE, FALSE, 0, 7), Mv(44, 31, FALSE, FALSE, 0, 6)>>,
                 FALSE, FALSE, 0, 5, 1, FALSE, 0),
    (* 28 *) Pos(<<Mv(46, 30, FALSE, FALSE, 0, 9)>>, FALSE, FALSE, 0, 5, 1, FALSE, -500),
    (* 29 *) Pos(<<Mv(47, 26, FALSE, FALSE, 0, 10)>>, FALSE, FALSE, 0, 5, 1, FALSE, 0),
    (* 30 *) Pos(<<>>, FALSE, FALSE, 0, 5, 1, FALSE, 0),
    (* 31 *) Pos(<<Mv(48, 30, FALSE, FALSE, 0, 11)>>, FALSE, FALSE, 0, 5, 1, FALSE, 0),
    (* 32 *) Pos(<<>>, TRUE, FALSE, 0, 5, 1, FALSE, 0),
    (* 33 *) Pos(<<Mv(50, 29, FALSE, FALSE, 0, 1), Mv(51, 35, FALSE, FALSE, 0, 3),
                   Mv(53, 34, FALSE, FALSE, 0, 4), Mv(52, 32, FALSE, FALSE, 0, 6)>>,
                 FALSE, FALSE, 0, 5, 1, FALSE, 0),
    (* 34 *) Pos(<<>>, FALSE, FALSE, 0, 5, 1, FALSE, 0),
    (* 35 *) Pos(<<Mv(54, 26, FALSE, FALSE, 0, 7)>>, FALSE, FALSE, 0, 5, 1, FALSE, 0),
    (* 36 *) Pos(<<Mv(60, 37, FALSE, FALSE, 0, 1)>>, FALSE, FALSE, 0, 5, 1, FALSE, 0),
    (* 37 *) Pos(<<Mv(61, 38, FALSE, FALSE, 0, 3)>>, TRUE, FALSE, 0, 5, 1, FALSE, 0),
    (* 38 *) Pos(<<Mv(62, 39, FALSE, FALSE, 0, 4)>>, FALSE, FALSE, 0, 5, 1, FALSE, 0),
    (* 39 *) Pos(<<Mv(63, 40, FALSE, FALSE, 0, 6)>>, TRUE, FALSE, 0, 5, 1, FALSE, 0),
    (* 40 *) Pos(<<Mv(64, 41, FALSE, FALSE, 0, 7)>>, FALSE, FALSE, 0, 5, 1, FALSE, 0),
    (* 41 *) Pos(<<Mv(65, 13, FALSE, FALSE, 0, 9)>>, FALSE, FALSE, 0, 5, 1, FALSE, 0),
    (* 42 *) Pos(<<Mv(66, 36, FALSE, TRUE, 100, 2)>>, FALSE, FALSE, 0, 6, 1, FALSE, 0)
>>

InitialPositions == {1}
\* the start positions of the runs that compare late-move reduction on and off
LmrPositions == {1, 15}
\* the start positions of the runs with null-move pruning on and off
NullPositions == {1, 24}
\* the start positions of the runs that meet a position twice in an iteration
CachePositions == {1, 25, 33}
\* the start positions of the runs with lines of checks
CheckPositions == {1, 42}

\* Board::get_hash
get_hash(bd) == bd

\* MoveGen::new_legal
new_legal(bd) == Game[bd].moves

MoveOf(bd, id) ==
    CHOOSE m \in {Game[bd].moves[i] : i \in DOMAIN Game[bd].moves} : m.id = id

\* Board::make_move_new
make_move_new(bd, id) == MoveOf(bd, id).to

\* Board::checkers() != EMPTY
in_check_of(bd) == Game[bd].in_check

\* Board::null_move: None when the side to move is in check
null_move(bd) == IF Game[bd].in_check THEN None ELSE Some(Game[bd].null)

(***************************************************************************)
(* game_helpers.rs                                                         *)
(***************************************************************************)
\* move_resets_fifty_move_rule: a pawn on the source or a piece on the destination
move_resets_fifty_move_rule(id, bd) ==
    MoveOf(bd, id).pawn \/ MoveOf(bd, id).capture

\* move_is_quiet: no captures or promotions
move_is_quiet(bd, child_board) ==
    /\ Game[child_board].pieces = Game[bd].pieces
    /\ Game[child_board].pawns = Game[bd].pawns

\* no game is finished
board_status_ongoing(bd, moves) == "Ongoing"

\* board_status
board_status(bd, moves) ==
    IF Len(moves) > 0 THEN "Ongoing"
    ELSE IF in_check_of(bd) THEN "Checkmate"
    ELSE "Stalemate"

draw_by_move_rule_fifty_only(bd, game_history, clock) == clock >= FiftyMoveClock

\* draw_by_move_rule: game_history.iter().rev().take(clock).step_by(2).skip(1)
\* visits the entries 2, 4, ... places before the last, below `clock`
draw_by_move_rule(bd, game_history, clock) ==
    IF clock >= FiftyMoveClock THEN TRUE
    ELSE IF clock >= RepetitionMinClock
         THEN LET n == Len(game_history) IN
              \E r \in 0..(Min(clock, n) - 1) :
                    r % 2 = 0 /\ r >= 2 /\ game_history[n - r] = get_hash(bd)
         ELSE FALSE

\* the oracle's verdict on a position (oracle.rs), read off the position
oracle(bd) == IF Game[bd].oracle THEN Some(DRAW) ELSE None

\* EVALUATOR.evaluate
evaluate(bd) == Game[bd].eval

(***************************************************************************)
(* moves.rs: the staged move generator                                     *)
(***************************************************************************)
Remove(seq, x) == SelectSeq(seq, LAMBDA m : m # x)

\* Iterator::max_by_key: the index of the last of the greatest keys
MaxIndexFirst(keys) ==
    CHOOSE i \in DOMAIN keys :
        /\ \A j \in DOMAIN keys : keys[j] <= keys[i]
        /\ \A j \in DOMAIN keys : j < i => keys[j] < keys[i]

MaxIndex(keys) ==
    CHOOSE i \in DOMAIN keys :
        /\ \A j \in DOMAIN keys : keys[j] <= keys[i]
        /\ \A j \in DOMAIN keys : j > i => keys[j] < keys[i]

\* Vec::swap_remove: the last element takes the place of the removed one
swap_remove(vec, i) ==
    LET n == Len(vec) IN
    [k \in 1..(n - 1) |-> IF k = i THEN vec[n] ELSE vec[k]]

\* SeeMove values of a Vec<SeeMove>: <<value, mv>>
SeeKeys(vec) == [k \in DOMAIN vec |-> vec[k][1]]

\* the captures MoveGen yields under the mask board.combined(), each with its
\* static exchange evaluation
SeeMoves(bd, moves) ==
    LET caps == SelectSeq(moves, LAMBDA id : MoveOf(bd, id).capture) IN
    [k \in DOMAIN caps |-> <<MoveOf(bd, caps[k]).see, caps[k]>>]

NonCaptures(bd, moves) == SelectSeq(moves, LAMBDA id : ~MoveOf(bd, id).capture)

MoveIds(bd) == [k \in DOMAIN new_legal(bd) |-> new_legal(bd)[k].id]

IsLegal(bd, id) == \E k \in DOMAIN new_legal(bd) : new_legal(bd)[k].id = id

\* ChessMove::get_source and get_dest: the pair of squares of a move, named
\* by the least move between them
get_source_dest(id) == IF id = 38 THEN 37 ELSE id

\* next, the test of a killer: a legal move m to mv.get_dest() with
\* m.get_source() == mv.get_source()
KillerPasses(bd, id) ==
    \E k \in DOMAIN new_legal(bd) :
        get_source_dest(new_legal(bd)[k].id) = get_source_dest(id)

\* SortedMoveGenerator::new
SortedMoveGenerator_new(table, killers, bd) ==
    LET entry == TableGet(table, get_hash(bd)) IN
    [pv_move |-> IF entry # None THEN Some(entry[1].best_move) ELSE None,
     captures |-> None,
     killers |-> killers,
     quiets |-> None,
     moves |-> MoveIds(bd)]

\* the killers left once those popped before the first legal one are gone
RECURSIVE DropIllegalKillers(_, _)
DropIllegalKillers(killers, bd) ==
    IF killers = <<>> THEN <<>>
    ELSE IF KillerPasses(bd, Head(killers)) THEN killers
    ELSE DropIllegalKillers(Tail(killers), bd)

\* the history-table values of a Vec<ChessMove>
HistoryValues(vec, bd, history_table_) ==
    [k \in DOMAIN vec |-> history_table_[MoveOf(bd, vec[k]).hk]]

GreatestKey(keys) == keys[MaxIndex(keys)]

\* next, `if self.captures.is_none()`: the captures leave `moves` and the
\* killers, and are kept with their static exchange evaluations
CollectCaptures(g, bd) ==
    IF g.captures = None
    THEN [g EXCEPT !.captures = Some(SeeMoves(bd, g.moves)),
                   !.killers = SelectSeq(g.killers,
                                 LAMBDA m : ~(\E k \in DOMAIN g.moves :
                                     g.moves[k] = m /\ MoveOf(bd, m).capture)),
                   !.moves = NonCaptures(bd, g.moves)]
    ELSE g

\* next, `if self.quiets.is_none()`: the killers are used up, the rest of
\* `moves` becomes the quiets
CollectQuiets(g) ==
    IF g.quiets = None
    THEN [g EXCEPT !.killers = <<>>, !.quiets = Some(g.moves), !.moves = <<>>]
    ELSE [g EXCEPT !.killers = <<>>]

\* captures.next(): the sorter's greatest element
NextCapture(g, top) ==
    [mv |-> Some(g.captures[1][top][2]),
     gen |-> [g EXCEPT !.captures = Some(swap_remove(g.captures[1], top))]]

\* next, the quiet of the greatest history value, or else a losing capture
NextQuiet(g, bd, history_table_) ==
    IF g.quiets[1] # <<>>
    THEN [mv |-> Some(g.quiets[1][MaxIndex(HistoryValues(g.quiets[1], bd, history_table_))]),
          gen |-> [g EXCEPT !.quiets = Some(swap_remove(g.quiets[1],
                        MaxIndex(HistoryValues(g.quiets[1], bd, history_table_))))]]
    ELSE IF g.captures[1] # <<>>
         THEN NextCapture(g, MaxIndex(SeeKeys(g.captures[1])))
         ELSE [mv |-> None, gen |-> g]

\* next, the first legal killer, or else the later stages
NextKiller(g, ks, bd, history_table_) ==
    IF ks # <<>>
    THEN [mv |-> Some(Head(ks)),
          gen |-> [g EXCEPT !.killers = Tail(ks), !.moves = Remove(g.moves, Head(ks))]]
    ELSE NextQuiet(CollectQuiets(g), bd, history_table_)

\* next, a winning or equal capture, or else the later stages
NextAfterPv(g, bd, history_table_) ==
    IF g.captures[1] # <<>> /\ GreatestKey(SeeKeys(g.captures[1])) >= 0
    THEN NextCapture(g, MaxIndex(SeeKeys(g.captures[1])))
    ELSE NextKiller(g, DropIllegalKillers(g.killers, bd), bd, history_table_)

\* SortedMoveGenerator::next: [mv : Option<ChessMove>, gen : the generator after the call].
\* The Peekable over the sorter is read as the sorter's next element, which
\* the generator never changes between a peek and the next call.
SortedMoveGenerator_next(g, bd, history_table_) ==
    IF g.pv_move # None
    THEN [mv |-> g.pv_move,
          gen |-> [g EXCEPT !.pv_move = None,
                            !.moves = Remove(g.moves, g.pv_move[1]),
                            !.killers = Remove(g.killers, g.pv_move[1])]]
    ELSE NextAfterPv(CollectCaptures(g, bd), bd, history_table_)

\* quiescence_move_generator: the captures, to be drawn by MaxSelectionSorter
quiescence_move_generator(bd) == SeeMoves(bd, MoveIds(bd))

HistoryKeys == {m.hk : m \in UNION {{Game[b].moves[k] : k \in DOMAIN Game[b].moves} : b \in DOMAIN Game}}

\* the legal move lists of at most n moves from a position
RECURSIVE Walks(_, _)
Walks(b, n) ==
    {<<>>} \cup
    (IF n = 0 THEN {}
     ELSE UNION {{<<new_legal(b)[k].id>> \o w : w \in Walks(new_legal(b)[k].to, n - 1)} :
                    k \in DOMAIN new_legal(b)})

\* the loop of LunaticSearchState::new over a part of the move list: the
\* board it ends on, whether history.clear() was called, and the hashes
\* pushed since the last clear (or since the start of the part).  A part of
\* several moves is replayed as its first half followed by its second half.
RECURSIVE ReplayPart(_, _)
ReplayPart(b, moves) ==
    IF b \notin DOMAIN Game \/ moves = <<>> THEN [board |-> b, cleared |-> FALSE, pushed |-> <<>>]
    ELSE IF Len(moves) = 1
    THEN LET b1 == make_move_new(b, Head(moves)) IN
         [board |-> b1, cleared |-> move_resets_fifty_move_rule(Head(moves), b),
          pushed |-> <<get_hash(b1)>>]
    ELSE LET half == Len(moves) \div 2
             r1 == ReplayPart(b, SubSeq(moves, 1, half))
             r2 == ReplayPart(r1.board, SubSeq(moves, half + 1, Len(moves)))
         IN [board |-> r2.board, cleared |-> r1.cleared \/ r2.cleared,
             pushed |-> IF r2.cleared THEN r2.pushed ELSE r1.pushed \o r2.pushed]

\* LunaticSearchState::new, the replay of the move list: <<board, history>>
Replay(b, h, moves) ==
    LET r == ReplayPart(b, moves) IN
    <<r.board, IF r.cleared THEN r.pushed ELSE h \o r.pushed>>

\* LunaticSearchState::new
New(init_pos, moves) ==
    LET r == Replay(init_pos, <<get_hash(init_pos)>>, moves) IN
    /\ board = r[1]
    /\ history = r[2]
    /\ halfmove_clock = (Len(r[2]) % 256) - 1
    /\ cache_table = with_rounded_entries(CacheEntries)
    /\ killer_table = [i \in 1..max_depth |-> <<>>]
    /\ history_table = [k \in HistoryKeys |-> 0]
    /\ sel_depth = 0

\* the state after LunaticSearchState::new, for the start positions and the
\* settings of null_move_pruning given
InitWith(positions, prunings) ==
    /\ \E init_pos \in positions :
         \E moves \in Walks(init_pos, MaxReplay) : New(init_pos, moves)
    /\ s_pc = "new"
    /\ history_len = 0 /\ nodes = 0 /\ depth = 0
    /\ stack = <<>> /\ ret = None /\ pv = NoPv /\ handler = NoHandler
    /\ start_history = <<>>
    /\ \E pruning \in prunings :
        options = [late_move_reduction |-> late_move_reduction,
                   null_move_pruning |-> pruning]
    /\ first_run = None
    /\ t_op = [op |-> "new"] /\ t_log = <<>>
    /\ HostIdle

InitAt(positions) == InitWith(positions, {null_move_pruning})

Init == InitAt(InitialPositions)

(***************************************************************************)
(* Frames of search_position and quiescence_search, and what they return.  *)
(***************************************************************************)
NoGen == [pv_move |-> None, captures |-> None, killers |-> <<>>, quiets |-> None, moves |-> <<>>]

Frame(fn, root, bd, d, ply, clock, alpha, beta) ==
    [fn |-> fn, root |-> root, board |-> bd, depth |-> d, ply_index |-> ply,
     halfmove_clock |-> clock, alpha |-> alpha, beta |-> beta, original_alpha |-> alpha,
     pc |-> "enter", value |-> EvalMIN, best_move |-> None, in_check |-> FALSE,
     killers |-> <<>>, gen |-> NoGen, index |-> 0,
     mv |-> 0, child_board |-> 0, quiet |-> FALSE, child_clock |-> 0,
     reduced_depth |-> 0, narrowed_beta |-> 0, captures |-> <<>>,
     before |-> None, searched |-> <<>>]

TerminatedAsDraw == [err |-> FALSE, none |-> FALSE, mv |-> 0, value |-> 0]

\* Err(()): Terminated
Terminated == [err |-> TRUE, none |-> FALSE, mv |-> 0, value |-> 0]

\* SearchReturnType::convert: BestMove (the root) maps the move, and does not
\* evaluate the value without one; PosEval evaluates the value
convert(root, value, mv) ==
    IF root
    THEN IF mv = None
         THEN [err |-> FALSE, none |-> TRUE, mv |-> 0, value |-> 0]
         ELSE [err |-> FALSE, none |-> FALSE, mv |-> mv[1], value |-> value]
    ELSE [err |-> FALSE, none |-> FALSE, mv |-> 0, value |-> value]

Top == stack[Len(stack)]
Pop(st) == SubSeq(st, 1, Len(st) - 1)
ReplaceTop(st, f) == [st EXCEPT ![Len(st)] = f]

\* Vec::truncate
truncate(vec, len) == SubSeq(vec, 1, Min(Len(vec), len))

\* a wrapping push_back alone
KillerPushNoRetain(entry, mv) ==
    IF Len(entry) >= 2 THEN Append(Tail(entry), mv) ELSE Append(entry, mv)

\* ArrayDeque<[ChessMove; 2], Wrapping>: retain(!= mv), then push_back
KillerPush(entry, mv) ==
    LET e == Remove(entry, mv) IN
    IF Len(e) >= 2 THEN Append(Tail(e), mv) ELSE Append(e, mv)

Running == s_pc = "call" /\ stack # <<>>

FrameConst == UNCHANGED <<board, halfmove_clock, history_len, depth, pv, start_history, t_op, t_log,
                          options, first_run, hvars>>

\* one step of a frame: what it leaves of the search state
Step(st, r, n, h, c, kt, ht) ==
    /\ stack' = st /\ ret' = r /\ nodes' = n /\ history' = h
    /\ cache_table' = c /\ killer_table' = kt /\ history_table' = ht
    /\ s_pc' = s_pc
    /\ FrameConst

\* a frame returns r to its caller
Return(r, n, h, c, kt, ht) == Step(Pop(stack), Some(r), n, h, c, kt, ht)

\* a panic (an index out of bounds, an unwrap of None) ends the program
Panic ==
    /\ s_pc' = "panic"
    /\ UNCHANGED <<stack, ret, nodes, history, cache_table, killer_table, history_table>>
    /\ FrameConst

StoreUnchecked(f, value, best_move) == cache_table

\* the kind taken from the alpha of the moment
EntryKindOfAlpha(value, original_alpha, alpha, beta) ==
    IF value <= alpha THEN "UpperBound"
    ELSE IF value >= beta THEN "LowerBound"
    ELSE "Exact"

\* kind: match value { _ if value <= original_alpha => UpperBound,
\*                     _ if value >= beta => LowerBound, _ => Exact }
EntryKind(value, original_alpha, alpha, beta) ==
    IF value <= original_alpha THEN "UpperBound"
    ELSE IF value >= beta THEN "LowerBound"
    ELSE "Exact"

\* search_position, after the move loop: the cache entry stored for the node
Store(f, value, best_move) ==
    TableSet(cache_table, get_hash(f.board),
             [kind |-> EntryKind(value, f.original_alpha, f.alpha, f.beta),
              value |-> value, depth |-> f.depth, best_move |-> best_move])

\* search_position, after the move loop: unwrap, store, return
Finish(f, value, best_move, h, kt, ht) ==
    IF best_move = None THEN Panic
    ELSE Return(convert(f.root, value, best_move), nodes, h,
                Store(f, value, best_move[1]), kt, ht)

\* search_position polls the handler: !T::REQUIRES_MOVE && *node_count % 4096 == 0
Polls(f) == ~f.root /\ nodes % PollInterval = 0

\* an entry of any depth
UsableAnyDepth(entry, d) == entry # None

\* the cache entry search_position may use: one at least as deep as the node
Usable(entry, d) == entry # None /\ entry[1].depth >= d

\* no extension
check_extension_none(in_check, d) == d

\* if in_check { depth += 1 }
check_extension(in_check, d) == IF in_check THEN d + 1 ELSE d

\* the window of a null-move child: the whole window below beta
NullWindowOpen(beta) == <<-beta, EvalMAX>>

\* narrowed_alpha = beta - Eval::cp(1); the child is given -beta, -narrowed_alpha
NullWindow(beta) == <<-beta, -(beta - 1)>>

(***************************************************************************)
(* search_position up to its first call or return (mod.rs 164-262).  A     *)
(* frame that makes a null move remembers in `before` the history stack    *)
(* and the cache of that moment, and a frame remembers in `searched` the   *)
(* moves of its loop with the values they gave.                            *)
(***************************************************************************)
EnterBody(f) ==
    LET moves == new_legal(f.board)
        status == board_status(f.board, moves)
        in_check == in_check_of(f.board)
        d == check_extension(in_check, f.depth)
        entry == TableGet(cache_table, get_hash(f.board))
        usable == Usable(entry, d)
        alpha == IF usable /\ entry[1].kind = "LowerBound" THEN Max(f.alpha, entry[1].value) ELSE f.alpha
        beta == IF usable /\ entry[1].kind = "UpperBound" THEN Min(f.beta, entry[1].value) ELSE f.beta
        f1 == [f EXCEPT !.depth = d, !.alpha = alpha, !.beta = beta, !.in_check = in_check]
        Back(r) == Return(r, nodes + 1, history, cache_table, killer_table, history_table)
    IN  IF ~f.root /\ draw_by_move_rule(f.board, history, f.halfmove_clock)
        THEN Back(convert(f.root, DRAW, None))
        ELSE IF status # "Ongoing"
        THEN Back(convert(f.root, IF status = "Checkmate" THEN mated_in(f.ply_index) ELSE DRAW, None))
        ELSE IF ~f.root /\ oracle(f.board) # None
        THEN Back(convert(f.root, oracle(f.board)[1], None))
        ELSE IF usable /\ entry[1].kind = "Exact"
        THEN Back(convert(f.root, entry[1].value, Some(entry[1].best_move)))
        ELSE IF usable /\ alpha >= beta
        THEN Back(convert(f.root, entry[1].value, Some(entry[1].best_move)))
        ELSE IF d = 0
        THEN IF f.root
             THEN Back(convert(f.root, 0, None))
             ELSE \* the closure: *node_count -= 1, then quiescence_search
                  Step(Append(ReplaceTop(stack, [f1 EXCEPT !.pc = "quiescence_ret"]),
                              Frame("quiescence_search", FALSE, f.board, 0, f.ply_index,
                                    f.halfmove_clock, alpha, beta)),
                       None, nodes, history, cache_table, killer_table, history_table)
        ELSE IF f.ply_index >= Len(killer_table)
        THEN Panic
        ELSE
        LET f2 == [f1 EXCEPT !.killers = killer_table[f.ply_index + 1]] IN
        IF options.null_move_pruning /\ Game[f.board].sliders /\ null_move(f.board) # None
        THEN LET child_board == null_move(f.board)[1] IN
             Step(Append(ReplaceTop(stack, [f2 EXCEPT !.pc = "null_ret",
                            !.before = Some([history |-> history, cache_table |-> cache_table])]),
                         Frame("search_position", FALSE, child_board,
                               Max(0, d - (null_move_reduction + 1)), f.ply_index + 1,
                               f.halfmove_clock + 1,
                               NullWindow(beta)[1], NullWindow(beta)[2])),
                  None, nodes + 1, Append(history, get_hash(child_board)),
                  cache_table, killer_table, history_table)
        ELSE Step(ReplaceTop(stack, [f2 EXCEPT !.pc = "loop",
                        !.gen = SortedMoveGenerator_new(cache_table, f2.killers, f.board)]),
                  None, nodes + 1, history, cache_table, killer_table, history_table)

EnterNode ==
    /\ Running /\ Top.fn = "search_position" /\ Top.pc = "enter"
    /\ sel_depth' = Max(sel_depth, Top.ply_index)
    /\ \E up \in IF Polls(Top) THEN BOOLEAN ELSE {FALSE} :
        /\ handler' = IF Polls(Top)
                      THEN [handler EXCEPT !.polls = @ + 1, !.polled = TRUE, !.last_poll = nodes,
                                           !.up = up]
                      ELSE handler
        /\ IF up
           THEN Return(Terminated, nodes, history, cache_table, killer_table, history_table)
           ELSE EnterBody(Top)

(***************************************************************************)
(* search_position: the null-move child returns (mod.rs 255-262).          *)
(***************************************************************************)
NullReturn ==
    /\ Running /\ Top.fn = "search_position" /\ Top.pc = "null_ret" /\ ret # None
    /\ UNCHANGED <<sel_depth, handler>>
    /\ LET f == Top
           r == ret[1]
           child_value == -r.value
           h == Pop(history)
       IN  IF r.err
           THEN Return(Terminated, nodes, history, cache_table, killer_table, history_table)
           ELSE IF child_value >= f.beta
           THEN Return(convert(f.root, child_value, None), nodes, h,
                       cache_table, killer_table, history_table)
           ELSE Step(ReplaceTop(stack, [f EXCEPT !.pc = "loop",
                        !.gen = SortedMoveGenerator_new(cache_table, f.killers, f.board)]),
                     None, nodes, h, cache_table, killer_table, history_table)

(***************************************************************************)
(* search_position: the quiescence search of a depth-0 node returns.       *)
(***************************************************************************)
QuiescenceReturn ==
    /\ Running /\ Top.fn = "search_position" /\ Top.pc = "quiescence_ret" /\ ret # None
    /\ UNCHANGED <<sel_depth, handler>>
    /\ Return(convert(Top.root, ret[1].value, None), nodes, history,
              cache_table, killer_table, history_table)

\* the clock of the child a move leads to
ChildClockAlwaysNext(mv, bd, clock) == clock + 1

ChildClock(mv, bd, clock) ==
    IF move_resets_fifty_move_rule(mv, bd) THEN 1 ELSE clock + 1

(***************************************************************************)
(* search_position: the head of the move loop (mod.rs 269-300), or the     *)
(* end of the loop (332-346).                                              *)
(***************************************************************************)
\* a window with nothing in it
NarrowedBetaEmpty(alpha) == alpha

\* narrowed_beta = alpha + Eval::cp(1)
NarrowedBeta(alpha) == alpha + 1

LoopNext ==
    /\ Running /\ Top.fn = "search_position" /\ Top.pc = "loop"
    /\ UNCHANGED <<sel_depth, handler>>
    /\ \E nx \in {SortedMoveGenerator_next(Top.gen, Top.board, history_table)} :
       LET f == Top
       IN  IF nx.mv = None
           THEN Finish(f, f.value, f.best_move, history, killer_table, history_table)
           ELSE
           LET mv == nx.mv[1]
               child_board == make_move_new(f.board, mv)
               quiet == move_is_quiet(f.board, child_board)
               gives_check == in_check_of(child_board)
               clock == ChildClock(mv, f.board, f.halfmove_clock)
               lmr == /\ f.index >= late_move_leeway /\ f.depth > 3
                      /\ quiet /\ ~f.in_check /\ ~gives_check
               reduced_depth == IF lmr
                                THEN IF options.late_move_reduction < f.depth
                                     THEN f.depth - options.late_move_reduction
                                     ELSE 1
                                ELSE f.depth
               narrowed_beta == IF lmr THEN NarrowedBeta(f.alpha) ELSE f.beta
               f1 == [f EXCEPT !.gen = nx.gen, !.mv = mv, !.child_board = child_board,
                               !.quiet = quiet, !.child_clock = clock,
                               !.reduced_depth = reduced_depth,
                               !.narrowed_beta = narrowed_beta, !.pc = "child_ret"]
           IN  Step(Append(ReplaceTop(stack, f1),
                           Frame("search_position", FALSE, child_board, reduced_depth - 1,
                                 f.ply_index + 1, clock, -narrowed_beta, -f.alpha)),
                    None, nodes, Append(history, get_hash(child_board)),
                    cache_table, killer_table, history_table)

(***************************************************************************)
(* search_position: a child of the move loop returns (mod.rs 300-331).     *)
(***************************************************************************)
ChildReturn ==
    /\ Running /\ Top.fn = "search_position" /\ Top.pc = "child_ret" /\ ret # None
    /\ UNCHANGED <<sel_depth, handler>>
    /\ LET f == Top
           r == ret[1]
           child_value == -r.value
           takes == child_value > f.value \/ f.best_move = None
           value == IF takes THEN child_value ELSE f.value
           best_move == IF takes THEN Some(f.mv) ELSE f.best_move
           alpha == Max(f.alpha, value)
           h == Pop(history)
       IN  IF r.err
           THEN Return(Terminated, nodes, history, cache_table, killer_table, history_table)
           ELSE IF f.reduced_depth < f.depth /\ child_value > f.alpha
           THEN \* search again with full depth and the full window
                Step(Append(ReplaceTop(stack, [f EXCEPT !.reduced_depth = f.depth,
                                                        !.narrowed_beta = f.beta]),
                            Frame("search_position", FALSE, f.child_board, f.depth - 1,
                                  f.ply_index + 1, f.child_clock, -f.beta, -f.alpha)),
                     None, nodes, history, cache_table, killer_table, history_table)
           ELSE IF alpha >= f.beta
           THEN Finish([f EXCEPT !.alpha = alpha], value, best_move, h,
                       IF f.quiet
                       THEN [killer_table EXCEPT ![f.ply_index + 1] = KillerPush(@, f.mv)]
                       ELSE killer_table,
                       IF f.quiet
                       THEN [history_table EXCEPT ![MoveOf(f.board, f.mv).hk] = @ + f.depth * f.depth]
                       ELSE history_table)
           ELSE Step(ReplaceTop(stack, [f EXCEPT !.value = value, !.best_move = best_move,
                                                 !.alpha = alpha, !.index = f.index + 1,
                                                 !.pc = "loop",
                                                 !.searched = Append(@, [mv |-> f.mv,
                                                                         value |-> child_value])]),
                     None, nodes, h, cache_table, killer_table, history_table)

(***************************************************************************)
(* quiescence_search (mod.rs 349-424)                                      *)
(***************************************************************************)
Value(v) == [err |-> FALSE, none |-> FALSE, mv |-> 0, value |-> v]

QEnter ==
    /\ Running /\ Top.fn = "quiescence_search" /\ Top.pc = "enter"
    /\ UNCHANGED <<sel_depth, handler>>
    /\ LET f == Top
           entry == TableGet(cache_table, get_hash(f.board))
           hit == entry # None
           alpha0 == IF hit /\ entry[1].kind = "LowerBound" THEN Max(f.alpha, entry[1].value) ELSE f.alpha
           beta == IF hit /\ entry[1].kind = "UpperBound" THEN Min(f.beta, entry[1].value) ELSE f.beta
           status == board_status(f.board, new_legal(f.board))
           value == evaluate(f.board)
           alpha == IF value > alpha0 THEN value ELSE alpha0
           Back(v) == Return(Value(v), nodes + 1, history, cache_table, killer_table, history_table)
       IN  IF draw_by_move_rule(f.board, history, f.halfmove_clock) THEN Back(DRAW)
           ELSE IF hit /\ entry[1].kind = "Exact" THEN Back(entry[1].value)
           ELSE IF hit /\ alpha0 >= beta THEN Back(entry[1].value)
           ELSE IF status = "Checkmate" THEN Back(mated_in(f.ply_index))
           ELSE IF status = "Stalemate" THEN Back(DRAW)
           ELSE IF value > alpha0 /\ alpha >= beta THEN Back(value)
           ELSE Step(ReplaceTop(stack, [f EXCEPT !.alpha = alpha, !.beta = beta,
                        !.value = value, !.pc = "loop",
                        !.captures = quiescence_move_generator(f.board)]),
                     None, nodes + 1, history, cache_table, killer_table, history_table)

QLoopNext ==
    /\ Running /\ Top.fn = "quiescence_search" /\ Top.pc = "loop"
    /\ UNCHANGED <<sel_depth, handler>>
    /\ LET f == Top IN
       IF f.captures = <<>>
       THEN Return(Value(f.value), nodes, history, cache_table, killer_table, history_table)
       ELSE
       LET top == MaxIndex(SeeKeys(f.captures))
           mv == f.captures[top][2]
           child_board == make_move_new(f.board, mv)
           clock == ChildClock(mv, f.board, f.halfmove_clock)
       IN  Step(Append(ReplaceTop(stack, [f EXCEPT !.captures = swap_remove(f.captures, top),
                                                   !.mv = mv, !.child_board = child_board,
                                                   !.child_clock = clock,
                                                   !.pc = "child_ret"]),
                       Frame("quiescence_search", FALSE, child_board, 0, f.ply_index + 1,
                             clock, -f.beta, -f.alpha)),
                None, nodes, Append(history, get_hash(child_board)),
                cache_table, killer_table, history_table)

QChildReturn ==
    /\ Running /\ Top.fn = "quiescence_search" /\ Top.pc = "child_ret" /\ ret # None
    /\ UNCHANGED <<sel_depth, handler>>
    /\ LET f == Top
           child_value == -ret[1].value
           h == Pop(history)
           value == IF child_value > f.value THEN child_value ELSE f.value
           alpha == IF child_value > f.value /\ value > f.alpha THEN value ELSE f.alpha
       IN  IF child_value > f.value /\ value > f.alpha /\ alpha >= f.beta
           THEN Return(Value(value), nodes, h, cache_table, killer_table, history_table)
           ELSE Step(ReplaceTop(stack, [f EXCEPT !.value = value, !.alpha = alpha, !.pc = "loop"]),
                     None, nodes, h, cache_table, killer_table, history_table)

(***************************************************************************)
(* search() (mod.rs 96-152)                                                *)
(***************************************************************************)
SearchConst == UNCHANGED <<board, halfmove_clock, killer_table, history_table, sel_depth,
                           cache_table, t_op, t_log, options, first_run, hvars>>

\* search() is called: let history_len, let mut nodes
SearchCall ==
    /\ s_pc = "new"
    /\ s_pc' = "for"
    /\ history_len' = Len(history)
    /\ nodes' = 0
    /\ depth' = 0
    /\ start_history' = history
    /\ UNCHANGED <<history, stack, ret, pv, handler>>
    /\ SearchConst

\* for depth in 0..self.options.max_depth: the root call of the next depth
IterStart ==
    /\ s_pc = "for"
    /\ IF depth < max_depth
       THEN /\ s_pc' = "call"
            /\ stack' = <<Frame("search_position", TRUE, board, depth, 0, halfmove_clock,
                                EvalMIN, EvalMAX)>>
            /\ handler' = [handler EXCEPT !.iterations = @ + 1, !.polled = FALSE]
       ELSE /\ s_pc' = "done"
            /\ UNCHANGED <<stack, handler>>
    /\ UNCHANGED <<history, history_len, nodes, depth, ret, pv, start_history>>
    /\ SearchConst

KeepAll(vec, len) == vec

\* self.history.truncate(history_len), after the root call and after the
\* principal variation
RestoreHistory(vec, len) == truncate(vec, len)

\* the root call has returned: restore the history, match the result
IterReturn ==
    /\ s_pc = "call" /\ stack = <<>> /\ ret # None
    /\ history' = RestoreHistory(history, history_len)
    /\ ret' = None
    /\ LET r == ret[1] IN
       IF r.err
       THEN s_pc' = "done" /\ UNCHANGED <<depth, pv>>
       ELSE IF r.none
       THEN s_pc' = "for" /\ depth' = depth + 1 /\ UNCHANGED pv
       ELSE /\ s_pc' = "pv"
            /\ pv' = [mv |-> r.mv, value |-> r.value, principal_variation |-> <<>>,
                      board |-> board, halfmove_clock |-> halfmove_clock,
                      next_move |-> Some(r.mv)]
            /\ UNCHANGED depth
    /\ UNCHANGED <<history_len, nodes, stack, handler, start_history>>
    /\ SearchConst

\* the move put before the others
principal_variation_push_front(principal_variation, mv) == <<mv>> \o principal_variation

\* principal_variation.push(mv)
principal_variation_push(principal_variation, mv) == Append(principal_variation, mv)

\* one turn of `while let Some(mv) = next_move.take()`
PvStep ==
    /\ s_pc = "pv" /\ pv.next_move # None
    /\ LET mv == pv.next_move[1]
           clock == ChildClock(mv, pv.board, pv.halfmove_clock)
           bd == make_move_new(pv.board, mv)
           h == Append(history, get_hash(bd))
           entry == TableGet(cache_table, get_hash(bd))
       IN  /\ history' = h
           /\ pv' = [pv EXCEPT !.halfmove_clock = clock, !.board = bd,
                               !.principal_variation = principal_variation_push(@, mv),
                               !.next_move = IF draw_by_move_rule(bd, h, clock) THEN None
                                             ELSE IF entry # None THEN Some(entry[1].best_move)
                                             ELSE None]
    /\ UNCHANGED <<s_pc, history_len, nodes, depth, stack, ret, handler, start_history>>
    /\ SearchConst

SearchResultSelDepth ==
    [mv |-> pv.mv, value |-> pv.value, nodes |-> nodes, depth |-> sel_depth,
     sel_depth |-> sel_depth, principal_variation |-> pv.principal_variation,
     transposition_table_size |-> capacity(cache_table),
     transposition_table_entries |-> cache_table.len]

SearchResult ==
    [mv |-> pv.mv, value |-> pv.value, nodes |-> nodes, depth |-> depth,
     sel_depth |-> sel_depth, principal_variation |-> pv.principal_variation,
     transposition_table_size |-> capacity(cache_table),
     transposition_table_entries |-> cache_table.len]

\* the variation is complete: restore the history, tell the handler
PvEnd ==
    /\ s_pc = "pv" /\ pv.next_move = None
    /\ history' = RestoreHistory(history, history_len)
    /\ handler' = [handler EXCEPT !.results = Append(@, SearchResult)]
    /\ pv' = NoPv
    /\ depth' = depth + 1
    /\ s_pc' = "for"
    /\ UNCHANGED <<history_len, nodes, stack, ret, start_history>>
    /\ SearchConst

Next ==
    \/ SearchCall \/ IterStart \/ IterReturn \/ PvStep \/ PvEnd
    \/ EnterNode \/ NullReturn \/ QuiescenceReturn \/ LoopNext \/ ChildReturn
    \/ QEnter \/ QLoopNext \/ QChildReturn

Spec == Init /\ [][Next]_vars

(***************************************************************************)
(*                      Claims about the search                            *)
(***************************************************************************)

\* C4: after every root iteration of search(), completed or terminated, and
\* again after the principal variation has been rebuilt, the history has the
\* length and the contents it had when search() started.
C4_HistoryRestored ==
    /\ s_pc \in {"for", "done"} => history = start_history
    /\ (s_pc = "pv" /\ pv.principal_variation = <<>>) => history = start_history
    /\ s_pc \in {"for", "pv", "done"} => Len(start_history) = history_len

\* C4 witness: search() has ended by a termination, after an iteration that
\* reported a principal variation
C4_Witness ==
    /\ s_pc = "done" /\ handler.up
    /\ handler.results # <<>>
    /\ history = start_history

\* the step makes a move of the loop of a frame and calls the child
MakesMove == /\ Running /\ Top.pc = "loop" /\ Len(stack') = Len(stack) + 1

MoveMade == MoveOf(Top.board, stack'[Len(stack)].mv)

Repeats(bd, game_history, clock) ==
    \E r \in 1..(Len(game_history) - 1) :
        /\ r < clock /\ r % 2 = 0
        /\ game_history[Len(game_history) - r] = get_hash(bd)

\* the step enters a non-root node
EntersNonRoot == Running /\ Top.pc = "enter" /\ ~Top.root

\* the step returns DRAW from the node on top
ReturnsDraw ==
    /\ stack' = Pop(stack)
    /\ ret' # None /\ ~ret'[1].err /\ ret'[1].value = DRAW

\* C6 as stated: every non-root node whose hash appears in the history within
\* the last halfmove_clock plies, on a ply of the same side, returns DRAW.
C6_RepetitionReturnsDraw ==
    [][(EntersNonRoot /\ Repeats(Top.board, history, Top.halfmove_clock))
            => ReturnsDraw]_vars

\* C6 amended: every non-root node that its time_up poll does not terminate,
\* whose halfmove_clock is at least 4 and whose hash appears in the history
\* within the last halfmove_clock plies on a ply of the same side, returns DRAW.
C6_RepetitionFromClockFourReturnsDraw ==
    [][(/\ EntersNonRoot /\ Repeats(Top.board, history, Top.halfmove_clock)
        /\ Top.halfmove_clock >= RepetitionMinClock
        /\ ~handler'.up)
            => ReturnsDraw]_vars

\* C6 witness: a node of clock 4 or more that repeats a position of the
\* history has returned DRAW to its parent
C6_Witness ==
    /\ Running /\ ret # None /\ ~ret[1].err /\ ret[1].value = DRAW
    /\ Top.pc = "child_ret"
    /\ Top.child_clock >= RepetitionMinClock
    /\ Repeats(Top.child_board, history, Top.child_clock)

\* C7: once a time_up poll has answered true the search unwinds and stops:
\* each frame returns Terminated to the one below it, nothing is called, the
\* cache, the killer table and the history table are not written, the
\* handler is not polled or told a result again, and search() returns.
C7_TerminationUnwinds ==
    [][handler.up =>
        /\ cache_table' = cache_table
        /\ killer_table' = killer_table
        /\ history_table' = history_table
        /\ handler' = handler
        /\ IF stack # <<>>
           THEN /\ Top.fn = "search_position"
                /\ stack' = Pop(stack)
                /\ ret' # None /\ ret'[1].err
                /\ s_pc' = "call"
           ELSE /\ stack' = <<>> /\ s_pc' = "done"
    ]_vars

\* C7 witness: an unwinding on its way through three frames or more, in a
\* search that has reported a result before
C7_Witness ==
    /\ handler.up /\ s_pc = "call"
    /\ Len(stack) >= 2 /\ ret # None /\ ret[1].err
    /\ handler.results # <<>>

\* C8: in any run of 4096 (here PollInterval) consecutive increments of the
\* node counter there is at least one time_up poll.
C8_PollEveryInterval ==
    nodes - handler.last_poll <= PollInterval

\* C9: between two consecutive root iterations time_up is polled at least
\* once (the poll may be anywhere since the former iteration started), and
\* once it has answered true no further iteration is started.
C9_PollBetweenIterations ==
    /\ (s_pc = "for" /\ handler.iterations >= 1 /\ depth < max_depth) => handler.polled
    /\ (handler.up /\ s_pc = "call") => ret # None

\* C10: search_result has been called exactly once for every root iteration
\* that completed, and not for a terminated one.
C10_ResultPerCompletedIteration ==
    /\ s_pc = "for" => Len(handler.results) = handler.iterations
    /\ s_pc = "done" =>
         Len(handler.results) = handler.iterations - (IF handler.up THEN 1 ELSE 0)

\* C11: within one search() call the depth of successive search_result
\* callbacks is strictly increasing and the reported node count never
\* decreases.
C11_ResultsOrderedByDepth ==
    \A i, j \in DOMAIN handler.results :
        i < j => /\ handler.results[i].depth < handler.results[j].depth
                 /\ handler.results[i].nodes <= handler.results[j].nodes

\* C11 witness: three results or more, the last with more nodes than the first
C11_Witness ==
    /\ Len(handler.results) >= 3
    /\ handler.results[1].nodes < handler.results[Len(handler.results)].nodes

\* C12: search() runs the root iterations for depth = 1, 2, ..., max_depth in
\* that order: the k-th root call has remaining depth k, a search that is
\* never terminated ends after the call of depth max_depth, and every
\* SearchResult carries a depth of 1..max_depth.
C12_DepthsOneToMaxDepth ==
    /\ (s_pc = "call" /\ Len(stack) = 1 /\ stack[1].root /\ stack[1].pc = "enter")
            => stack[1].depth = handler.iterations
    /\ (s_pc = "done" /\ ~handler.up) => depth = max_depth + 1
    /\ \A i \in DOMAIN handler.results : handler.results[i].depth \in 1..max_depth


\* C13: when the root position has no legal moves the search emits no
\* SearchResult and stops: it makes one root call, not one per depth.
C13_NoMovesStopsSearch ==
    Len(new_legal(board)) = 0 =>
        /\ handler.results = <<>>
        /\ handler.iterations <= 1


(***************************************************************************)
(* Two runs from the same root: the first with the options' late-move      *)
(* reduction, the second with late_move_reduction = 0.  When the first run *)
(* has gone through every depth without being terminated, the host keeps   *)
(* the values it was told and calls LunaticSearchState::new again with the *)
(* same position and moves: a fresh cache, fresh killer and history tables *)
(* (mod.rs 83-93).                                                         *)
(***************************************************************************)
ReportedValues == [i \in DOMAIN handler.results |-> handler.results[i].value]

NewWithoutLmr ==
    /\ s_pc = "done" /\ ~handler.up /\ first_run = None
    /\ first_run' = Some(ReportedValues)
    /\ options' = [options EXCEPT !.late_move_reduction = 0]
    /\ history' = start_history
    /\ cache_table' = with_rounded_entries(CacheEntries)
    /\ killer_table' = [i \in 1..max_depth |-> <<>>]
    /\ history_table' = [k \in HistoryKeys |-> 0]
    /\ sel_depth' = 0
    /\ s_pc' = "new"
    /\ history_len' = 0 /\ nodes' = 0 /\ depth' = 0
    /\ stack' = <<>> /\ ret' = None /\ pv' = NoPv /\ handler' = NoHandler
    /\ start_history' = <<>>
    /\ UNCHANGED <<board, halfmove_clock, t_op, t_log, hvars>>

NextLmr == Next \/ NewWithoutLmr

SpecLmr == InitAt(LmrPositions) /\ [][NextLmr]_vars

\* C14: the values a search reports with late-move reduction active are the
\* values the same search reports with late_move_reduction = 0.
C14_LmrKeepsRootValue ==
    (first_run # None /\ s_pc = "done" /\ ~handler.up) => ReportedValues = first_run[1]


(***************************************************************************)
(* The minimax value of a node to a depth: what search_position and        *)
(* quiescence_search compute when every move is searched with the full     *)
(* window and to the full depth, without the cache, the null move and the  *)
(* late-move reduction.  The rules of the nodes are the code's: the draw   *)
(* rules, the board status and the oracle come first (mod.rs 173-192), a   *)
(* check extends the depth (194-199), depth 0 is the quiescence value      *)
(* (215-231, 349-424).                                                     *)
(***************************************************************************)
SetMax(S) == CHOOSE x \in S : \A y \in S : y <= x

RECURSIVE QuiescenceValue(_, _, _, _)
QuiescenceValue(bd, ply_index, clock, game_history) ==
    LET status == board_status(bd, new_legal(bd))
        captures == quiescence_move_generator(bd)
    IN  IF draw_by_move_rule(bd, game_history, clock) THEN DRAW
        ELSE IF status = "Checkmate" THEN mated_in(ply_index)
        ELSE IF status = "Stalemate" THEN DRAW
        ELSE SetMax({evaluate(bd)} \cup
                    {-QuiescenceValue(make_move_new(bd, captures[k][2]), ply_index + 1,
                                      ChildClock(captures[k][2], bd, clock),
                                      Append(game_history,
                                             get_hash(make_move_new(bd, captures[k][2])))) :
                        k \in DOMAIN captures})

RECURSIVE MinimaxValue(_, _, _, _, _, _)
MinimaxValue(bd, root, d, ply_index, clock, game_history) ==
    LET moves == new_legal(bd)
        status == board_status(bd, moves)
        d1 == IF in_check_of(bd) THEN d + 1 ELSE d
    IN  IF ~root /\ draw_by_move_rule(bd, game_history, clock) THEN DRAW
        ELSE IF status = "Checkmate" THEN mated_in(ply_index)
        ELSE IF status = "Stalemate" THEN DRAW
        ELSE IF ~root /\ oracle(bd) # None THEN oracle(bd)[1]
        ELSE IF d1 = 0 THEN QuiescenceValue(bd, ply_index, clock, game_history)
        ELSE SetMax({-MinimaxValue(moves[k].to, FALSE, d1 - 1, ply_index + 1,
                                   ChildClock(moves[k].id, bd, clock),
                                   Append(game_history, get_hash(moves[k].to))) :
                        k \in DOMAIN moves})

\* C15: a value search_position returns strictly inside its window is the
\* minimax value of the node to the searched depth; at the root, whose
\* window is (MIN, MAX), this is every value handed to the handler.
C15_RootValueIsMinimax ==
    \A i \in DOMAIN handler.results :
        LET r == handler.results[i] IN
        (EvalMIN < r.value /\ r.value < EvalMAX) =>
            r.value = MinimaxValue(board, TRUE, r.depth, 0, halfmove_clock, start_history)


(***************************************************************************)
(*                                                                         *)
(*          The standard evaluator (evaluation/standard.rs)                *)
(*                                                                         *)
(* A board is the set of its pieces [color, piece, square], the side to    *)
(* move and the status the chess library gives it.  Squares are numbered   *)
(* as the library numbers them: 8 * rank + file.                           *)
(***************************************************************************)
\* the greatest number of pieces besides the kings on an evaluated board
MaxExtraPieces == 2
\* the plies at which a position is evaluated are drawn from 0..MaxPlyIndex
MaxPlyIndex == 1

EngineIdle ==
    /\ cache_table = with_rounded_entries(TableEntries)
    /\ t_op = [op |-> "new"]
    /\ t_log = <<>>
    /\ SearchIdle
    /\ DriverIdle

Colors == {"White", "Black"}
ALL_PIECES == {"Pawn", "Knight", "Bishop", "Rook", "Queen", "King"}
BoardStatuses == {"Ongoing", "Checkmate", "Stalemate"}

get_rank(square) == square \div 8
get_file(square) == square % 8

\* i32 division truncates towards zero
TruncDiv(a, b) == IF a >= 0 THEN a \div b ELSE -((-a) \div b)

PieceSquareTable_keyUnflipped(side, square) == <<get_rank(square), get_file(square)>>

\* PieceSquareTable::key
PieceSquareTable_key(side, square) ==
    <<IF side = "White" THEN 7 - get_rank(square) ELSE get_rank(square), get_file(square)>>

\* PieceSquareTable::get
PieceSquareTable_get(table, side, square) ==
    LET k == PieceSquareTable_key(side, square) IN table[k[1] + 1][k[2] + 1]

\* StandardEvaluator::default
piece_values ==
    [Pawn |-> 100, Knight |-> 320, Bishop |-> 330, Rook |-> 500, Queen |-> 900, King |-> 0]

midgame_piece_tables == [
     Pawn |-> <<
        <<0, 0, 0, 0, 0, 0, 0, 0>>,
        <<50, 50, 50, 50, 50, 50, 50, 50>>,
        <<10, 10, 20, 30, 30, 20, 10, 10>>,
        <<5, 5, 10, 25, 25, 10, 5, 5>>,
        <<0, 0, 0, 20, 20, 0, 0, 0>>,
        <<5, -5, -10, 0, 0, -10, -5, 5>>,
        <<5, 10, 10, -20, -20, 10, 10, 5>>,
        <<0, 0, 0, 0, 0, 0, 0, 0>>>>,
     Knight |-> <<
        <<-50, -40, -30, -30, -30, -30, -40, -50>>,
        <<-40, -20, 0, 0, 0, 0, -20, -40>>,
        <<-30, 0, 10, 15, 15, 10, 0, -30>>,
        <<-30, 5, 15, 20, 20, 15, 5, -30>>,
        <<-30, 0, 15, 20, 20, 15, 0, -30>>,
        <<-30, 5, 10, 15, 15, 10, 5, -30>>,
        <<-40, -20, 0, 5, 5, 0, -20, -40>>,
        <<-50, -40, -30, -30, -30, -30, -40, -50>>>>,
     Bishop |-> <<
        <<-20, -10, -10, -10, -10, -10, -10, -20>>,
        <<-10, 0, 0, 0, 0, 0, 0, -10>>,
        <<-10, 0, 5, 10, 10, 5, 0, -10>>,
        <<-10, 5, 5, 10, 10, 5, 5, -10>>,
        <<-10, 0, 10, 10, 10, 10, 0, -10>>,
        <<-10, 10, 10, 10, 10, 10, 10, -10>>,
        <<-10, 5, 0, 0, 0, 0, 5, -10>>,
        <<-20, -10, -10, -10, -10, -10, -10, -20>>>>,
     Rook |-> <<
        <<0, 0, 0, 0, 0, 0, 0, 0>>,
        <<5, 10, 10, 10, 10, 10, 10, 5>>,
        <<-5, 0, 0, 0, 0, 0, 0, -5>>,
        <<-5, 0, 0, 0, 0, 0, 0, -5>>,
        <<-5, 0, 0, 0, 0, 0, 0, -5>>,
        <<-5, 0, 0, 0, 0, 0, 0, -5>>,
        <<-5, 0, 0, 0, 0, 0, 0, -5>>,
        <<0, 0, 0, 5, 5, 0, 0, 0>>>>,
     Queen |-> <<
        <<-20, -10, -10, -5, -5, -10, -10, -20>>,
        <<-10, 0, 0, 0, 0, 0, 0, -10>>,
        <<-10, 0, 5, 5, 5, 5, 0, -10>>,
        <<-5, 0, 5, 5, 5, 5, 0, -5>>,
        <<0, 0, 5, 5, 5, 5, 0, -5>>,
        <<-10, 5, 5, 5, 5, 5, 0, -10>>,
        <<-10, 0, 5, 0, 0, 0, 0, -10>>,
        <<-20, -10, -10, -5, -5, -10, -10, -20>>>>,
     King |-> <<
        <<-50, -40, -30, -20, -20, -30, -40, -50>>,
        <<-30, -20, -10, 0, 0, -10, -20, -30>>,
        <<-30, -10, 20, 30, 30, 20, -10, -30>>,
        <<-30, -10, 30, 40, 40, 30, -10, -30>>,
        <<-30, -10, 30, 40, 40, 30, -10, -30>>,
        <<-30, -10, 20, 30, 30, 20, -10, -30>>,
        <<-30, -30, 0, 0, 0, 0, -30, -30>>,
        <<-50, -30, -30, -30, -30, -30, -30, -50>>>>]

endgame_piece_tables == [
     Pawn |-> <<
        <<0, 0, 0, 0, 0, 0, 0, 0>>,
        <<50, 50, 50, 50, 50, 50, 50, 50>>,
        <<10, 10, 20, 30, 30, 20, 10, 10>>,
        <<5, 5, 10, 25, 25, 10, 5, 5>>,
        <<0, 0, 0, 20, 20, 0, 0, 0>>,
        <<5, -5, -10, 0, 0, -10, -5, 5>>,
        <<5, 10, 10, -20, -20, 10, 10, 5>>,
        <<0, 0, 0, 0, 0, 0, 0, 0>>>>,
     Knight |-> <<
        <<-50, -40, -30, -30, -30, -30, -40, -50>>,
        <<-40, -20, 0, 0, 0, 0, -20, -40>>,
        <<-30, 0, 10, 15, 15, 10, 0, -30>>,
        <<-30, 5, 15, 20, 20, 15, 5, -30>>,
        <<-30, 0, 15, 20, 20, 15, 0, -30>>,
        <<-30, 5, 10, 15, 15, 10, 5, -30>>,
        <<-40, -20, 0, 5, 5, 0, -20, -40>>,
        <<-50, -40, -30, -30, -30, -30, -40, -50>>>>,
     Bishop |-> <<
        <<-20, -10, -10, -10, -10, -10, -10, -20>>,
        <<-10, 0, 0, 0, 0, 0, 0, -10>>,
        <<-10, 0, 5, 10, 10, 5, 0, -10>>,
        <<-10, 5, 5, 10, 10, 5, 5, -10>>,
        <<-10, 0, 10, 10, 10, 10, 0, -10>>,
        <<-10, 10, 10, 10, 10, 10, 10, -10>>,
        <<-10, 5, 0, 0, 0, 0, 5, -10>>,
        <<-20, -10, -10, -10, -10, -10, -10, -20>>>>,
     Rook |-> <<
        <<0, 0, 0, 0, 0, 0, 0, 0>>,
        <<5, 10, 10, 10, 10, 10, 10, 5>>,
        <<-5, 0, 0, 0, 0, 0, 0, -5>>,
        <<-5, 0, 0, 0, 0, 0, 0, -5>>,
        <<-5, 0, 0, 0, 0, 0, 0, -5>>,
        <<-5, 0, 0, 0, 0, 0, 0, -5>>,
        <<-5, 0, 0, 0, 0, 0, 0, -5>>,
        <<0, 0, 0, 5, 5, 0, 0, 0>>>>,
     Queen |-> <<
        <<-20, -10, -10, -5, -5, -10, -10, -20>>,
        <<-10, 0, 0, 0, 0, 0, 0, -10>>,
        <<-10, 0, 5, 5, 5, 5, 0, -10>>,
        <<-5, 0, 5, 5, 5, 5, 0, -5>>,
        <<0, 0, 5, 5, 5, 5, 0, -5>>,
        <<-10, 5, 5, 5, 5, 5, 0, -10>>,
        <<-10, 0, 5, 0, 0, 0, 0, -10>>,
        <<-20, -10, -10, -5, -5, -10, -10, -20>>>>,
     King |-> <<
        <<-50, -40, -30, -20, -20, -30, -40, -50>>,
        <<-30, -20, -10, 0, 0, -10, -20, -30>>,
        <<-30, -10, 20, 30, 30, 20, -10, -30>>,
        <<-30, -10, 30, 40, 40, 30, -10, -30>>,
        <<-30, -10, 30, 40, 40, 30, -10, -30>>,
        <<-30, -10, 20, 30, 30, 20, -10, -30>>,
        <<-30, -30, 0, 0, 0, 0, -30, -30>>,
        <<-50, -30, -30, -30, -30, -30, -30, -50>>>>]

MAX_PHASE == 256

\* game_phase_fn!: the weight and the starting count of each piece
PhaseWeight == [Pawn |-> 0, Knight |-> 1, Bishop |-> 1, Rook |-> 2, Queen |-> 4, King |-> 0]
PhaseCount == [Pawn |-> 8, Knight |-> 2, Bishop |-> 2, Rook |-> 2, Queen |-> 1, King |-> 0]

\* the sum of f over the set S
RECURSIVE SumOver(_, _)
SumOver(S, f) ==
    IF S = {} THEN 0 ELSE LET x == CHOOSE y \in S : TRUE IN f[x] + SumOver(S \ {x}, f)

INIT_PHASE == 2 * SumOver(ALL_PIECES, [p \in ALL_PIECES |-> PhaseCount[p] * PhaseWeight[p]])

\* board.pieces(piece).popcnt()
popcnt(pieces, piece) == Cardinality({p \in pieces : p.piece = piece})

\* StandardEvaluator::game_phase; the u32 subtraction cannot go below zero on
\* the boards of EvalBoards, whose pieces weigh less than INIT_PHASE
game_phase(bd) ==
    LET phase == INIT_PHASE - SumOver(ALL_PIECES,
                        [p \in ALL_PIECES |-> popcnt(bd.pieces, p) * PhaseWeight[p]])
    IN  (phase * MAX_PHASE + (INIT_PHASE \div 2)) \div INIT_PHASE

\* StandardEvaluator::evaluate_for_side
evaluate_for_side(bd, side, phase) ==
    LET ally_pieces == {p \in bd.pieces : p.color = side}
        value == SumOver(ally_pieces, [p \in ally_pieces |-> piece_values[p.piece]])
        midgame_value == value + SumOver(ally_pieces,
            [p \in ally_pieces |-> PieceSquareTable_get(midgame_piece_tables[p.piece], side, p.square)])
        endgame_value == value + SumOver(ally_pieces,
            [p \in ally_pieces |-> PieceSquareTable_get(endgame_piece_tables[p.piece], side, p.square)])
    IN  TruncDiv(midgame_value * (MAX_PHASE - phase) + endgame_value * phase, MAX_PHASE)

\* StandardEvaluator::evaluate
StandardEvaluator_evaluate(bd, ply_index) ==
    IF bd.status = "Ongoing"
    THEN LET phase == game_phase(bd)
             white == evaluate_for_side(bd, "White", phase)
             black == evaluate_for_side(bd, "Black", phase)
         IN  IF bd.side_to_move = "White" THEN white - black ELSE black - white
    ELSE IF bd.status = "Checkmate" THEN mated_in(ply_index)
    ELSE DRAW

\* the boards the evaluator is given: two kings that do not touch, and at
\* most MaxExtraPieces other pieces, no pawn on the first or the last rank
EvalSquares == {4, 27, 52, 60}
Touch(a, b) ==
    /\ get_rank(a) - get_rank(b) \in -1..1
    /\ get_file(a) - get_file(b) \in -1..1
Piece(c, p, sq) == [color |-> c, piece |-> p, square |-> sq]
ExtraPieces ==
    {Piece(c, p, sq) : c \in Colors, p \in ALL_PIECES \ {"King"}, sq \in EvalSquares} \
    {Piece(c, "Pawn", sq) : c \in Colors, sq \in {x \in EvalSquares : get_rank(x) \in {0, 7}}}
OnDistinctSquares(S) == \A p, q \in S : p.square = q.square => p = q
\* the sets of at most n extra pieces
RECURSIVE Extras(_)
Extras(n) ==
    IF n = 0 THEN {{}}
    ELSE LET less == Extras(n - 1) IN less \cup {e \cup {p} : e \in less, p \in ExtraPieces}
EvalBoards ==
    {[pieces |-> {Piece("White", "King", wk), Piece("Black", "King", bk)} \cup extra,
      side_to_move |-> side, status |-> status] :
        wk \in EvalSquares, bk \in EvalSquares,
        extra \in {e \in Extras(MaxExtraPieces) : OnDistinctSquares(e)},
        side \in Colors, status \in BoardStatuses}

ValidBoard(bd) ==
    /\ OnDistinctSquares(bd.pieces)
    /\ \A p, q \in bd.pieces : (p.piece = "King" /\ q.piece = "King" /\ p # q) => ~Touch(p.square, q.square)

Other(side) == IF side = "White" THEN "Black" ELSE "White"

\* the colour-mirrored board: colours swapped, ranks mirrored
ColorMirror(bd) ==
    [bd EXCEPT !.pieces = {Piece(Other(p.color), p.piece,
                                 8 * (7 - get_rank(p.square)) + get_file(p.square)) : p \in bd.pieces}]

\* the colour-swap: the colour-mirrored board with the other side to move
ColorSwap(bd) == [ColorMirror(bd) EXCEPT !.side_to_move = Other(bd.side_to_move)]

EvalInit ==
    /\ EngineIdle
    /\ \E bd \in EvalBoards, ply_index \in 0..MaxPlyIndex :
        /\ ValidBoard(bd)
        /\ call = [fn |-> "board", board |-> bd, ply_index |-> ply_index]

DoEvaluate ==
    /\ call.fn = "board"
    /\ call' = [fn |-> "evaluate", board |-> call.board, ply_index |-> call.ply_index,
                result |-> StandardEvaluator_evaluate(call.board, call.ply_index)]
    /\ UNCHANGED <<cache_table, t_op, t_log, svars, dvars>>

EvalNext == DoEvaluate

SpecEval == EvalInit /\ [][EvalNext]_vars

\* C16: the evaluation of a non-terminal position equals the evaluation of
\* its colour-swap, and the evaluation of the colour-mirrored board with the
\* side to move unchanged is its additive inverse.
C16_EvaluateColorSymmetric ==
    (call.fn = "evaluate" /\ call.board.status = "Ongoing") =>
        /\ call.result = StandardEvaluator_evaluate(ColorSwap(call.board), call.ply_index)
        /\ StandardEvaluator_evaluate(ColorMirror(call.board), call.ply_index) = -call.result

\* C16 witness: a non-terminal position with a pawn and another piece has
\* been evaluated, and not to zero
C16_Witness ==
    /\ call.fn = "evaluate" /\ call.board.status = "Ongoing"
    /\ call.result # 0
    /\ \E p \in call.board.pieces : p.piece = "Pawn"
    /\ Cardinality(call.board.pieces) = 4


(***************************************************************************)
(*                                                                         *)
(*             The evaluation type (evaluation/mod.rs)                     *)
(*                                                                         *)
(* An Evaluation is an i32.  kind() classifies it by four thresholds and   *)
(* casts the distance to the nearest extreme to u8.                        *)
(***************************************************************************)
U8MAX == 255

\* Evaluation::from_centipawns
from_centipawns(centipawns) == centipawns

\* Evaluation::mate_in
mate_in(plies_to_mate) == EvalMAX - plies_to_mate

\* impl Neg for Evaluation
neg(v) == -v

MateIn(m) == <<"MateIn", m>>
MatedIn(m) == <<"MatedIn", m>>
Centipawn(cp) == <<"Centipawn", cp>>

Evaluation_kindStrict(v) ==
    IF v > mate_in(U8MAX) THEN MateIn((mate_in(0) - v) % (U8MAX + 1))
    ELSE IF v < mated_in(U8MAX) THEN MatedIn((v - mated_in(0)) % (U8MAX + 1))
    ELSE Centipawn(v)

\* Evaluation::kind
Evaluation_kind(v) ==
    IF v >= mate_in(U8MAX) THEN MateIn((mate_in(0) - v) % (U8MAX + 1))
    ELSE IF v <= mated_in(U8MAX) THEN MatedIn((v - mated_in(0)) % (U8MAX + 1))
    ELSE Centipawn(v)

\* the centipawn values given to from_centipawns: the two ends of the open
\* interval between mated_in(255) and mate_in(255), and values around zero
CentipawnSamples ==
    {mated_in(U8MAX) + 1, -100, -1, 0, 1, 100, mate_in(U8MAX) - 1}

KindInit ==
    /\ EngineIdle
    /\ \E plies \in 0..U8MAX, cp \in CentipawnSamples :
        call = [fn |-> "input", plies |-> plies, centipawns |-> cp]

Made(fn, value) ==
    call' = [fn |-> fn, plies |-> call.plies, centipawns |-> call.centipawns,
             result |-> value, kind |-> Evaluation_kind(value)]

DoMateIn ==
    /\ call.fn = "input"
    /\ Made("mate_in", mate_in(call.plies))
    /\ UNCHANGED <<cache_table, t_op, t_log, svars, dvars>>

DoMatedIn ==
    /\ call.fn = "input"
    /\ Made("mated_in", mated_in(call.plies))
    /\ UNCHANGED <<cache_table, t_op, t_log, svars, dvars>>

DoNegMateIn ==
    /\ call.fn = "input"
    /\ Made("neg", neg(mate_in(call.plies)))
    /\ UNCHANGED <<cache_table, t_op, t_log, svars, dvars>>

DoFromCentipawns ==
    /\ call.fn = "input"
    /\ Made("from_centipawns", from_centipawns(call.centipawns))
    /\ UNCHANGED <<cache_table, t_op, t_log, svars, dvars>>

KindNext == DoMateIn \/ DoMatedIn \/ DoNegMateIn \/ DoFromCentipawns

SpecKind == KindInit /\ [][KindNext]_vars

\* C17: for every p of a u8, mate_in(p) classifies as MateIn(p), mated_in(p)
\* as MatedIn(p), the negation of mate_in(p) is mated_in(p), mate_in(p) is
\* greater than mate_in(p + 1) (for p + 1 a u8), and every value strictly
\* between mated_in(255) and mate_in(255) classifies as Centipawn of itself.
C17_MateScoresClassified ==
    /\ call.fn = "mate_in" =>
            /\ call.kind = MateIn(call.plies)
            /\ call.plies < U8MAX => call.result > mate_in(call.plies + 1)
    /\ call.fn = "mated_in" => call.kind = MatedIn(call.plies)
    /\ call.fn = "neg" => call.result = mated_in(call.plies) /\ call.kind = MatedIn(call.plies)
    /\ (call.fn = "from_centipawns" /\ mated_in(U8MAX) < call.result
            /\ call.result < mate_in(U8MAX)) => call.kind = Centipawn(call.centipawns)

\* C17 witness: the farthest mate, mated_in(255), has been classified
C17_Witness ==
    call.fn = "mated_in" /\ call.plies = U8MAX /\ call.kind = MatedIn(U8MAX)


(***************************************************************************)
(*                                                                         *)
(*                   The time managers (time.rs)                           *)
(*                                                                         *)
(* A Duration is a number of ticks.  A manager is its kind and the         *)
(* FixedTimeManager at its core: PercentageTimeManager and                 *)
(* StandardTimeManager wrap one.  The call record keeps the updates made   *)
(* so far: the time and the value given, the Duration returned.            *)
(***************************************************************************)
\* the intervals of the managers are drawn from 0..MaxInterval
MaxInterval == 3
\* the `time` of an update is drawn from 0..MaxTime
MaxTime == 1
\* the number of update calls in one behaviour
MaxUpdates == 3

\* FixedTimeManager::new
FixedTimeManager_new(interval) == [interval |-> interval, elapsed |-> 0]

\* FixedTimeManager::update: <<the manager after the call, the Duration returned>>
FixedTimeManager_update(tm, time) ==
    LET elapsed == tm.elapsed + time IN
    <<[tm EXCEPT !.elapsed = elapsed],
      IF tm.interval > elapsed THEN tm.interval - elapsed ELSE 0>>

\* PercentageTimeManager::update
PercentageTimeManager_update(tm, time) == FixedTimeManager_update(tm, time)

StandardTimeManager_updateAlways(tm, value, time) == PercentageTimeManager_update(tm, time)

\* StandardTimeManager::update
StandardTimeManager_update(tm, value, time) ==
    IF Evaluation_kind(value)[1] = "Centipawn"
    THEN PercentageTimeManager_update(tm, time)
    ELSE <<tm, 0>>

\* TimeManager::update through the trait object
TimeManager_update(manager, tm, value, time) ==
    IF manager = "Fixed" THEN FixedTimeManager_update(tm, time)
    ELSE StandardTimeManager_update(tm, value, time)

\* the values of the results given to update: centipawn values and mates
ResultValues == {-100, 100, mate_in(1), mated_in(2)}

TimeInit ==
    /\ EngineIdle
    /\ \E manager \in {"Fixed", "Standard"}, interval \in 0..MaxInterval :
        call = [fn |-> "new", manager |-> manager, time_manager |-> FixedTimeManager_new(interval),
                updates |-> <<>>]

DoUpdate ==
    /\ call.fn \in {"new", "update"}
    /\ Len(call.updates) < MaxUpdates
    /\ \E time \in 0..MaxTime, value \in ResultValues :
        LET r == TimeManager_update(call.manager, call.time_manager, value, time) IN
        call' = [fn |-> "update", manager |-> call.manager, time_manager |-> r[1],
                 updates |-> Append(call.updates,
                                    [time |-> time, value |-> value, result |-> r[2]])]
    /\ UNCHANGED <<cache_table, t_op, t_log, svars, dvars>>

TimeNext == DoUpdate

SpecTime == TimeInit /\ [][TimeNext]_vars

\* the time given to the first n updates that count: all of them for the
\* fixed manager, those with a centipawn value for the standard manager
RECURSIVE Accumulated(_, _, _)
Accumulated(updates, n, all) ==
    IF n = 0 THEN 0
    ELSE Accumulated(updates, n - 1, all) +
         (IF all \/ Evaluation_kind(updates[n].value)[1] = "Centipawn"
          THEN updates[n].time ELSE 0)

\* C18: over any sequence of update calls, FixedTimeManager returns
\* max(0, T - accumulated elapsed), so its results never increase and stay
\* 0 once 0; StandardTimeManager returns 0 when the result's value is MateIn
\* or MatedIn and otherwise what the wrapped manager returns: max(0, T - the
\* time accumulated by the updates passed on to it).
C18_TimeManagersReturn ==
    call.fn \in {"new", "update"} /\ "updates" \in DOMAIN call =>
    \A n \in DOMAIN call.updates :
        LET u == call.updates[n]
            T == call.time_manager.interval
        IN  /\ call.manager = "Fixed" =>
                /\ u.result = Max(0, T - Accumulated(call.updates, n, TRUE))
                /\ \A k \in 1..(n - 1) : call.updates[k].result >= u.result
            /\ call.manager = "Standard" =>
                IF Evaluation_kind(u.value)[1] \in {"MateIn", "MatedIn"}
                THEN u.result = 0
                ELSE u.result = Max(0, T - Accumulated(call.updates, n, FALSE))

\* C18 witness: a standard manager has passed an update on, has cut a mate
\* short, and has passed another update on with time left
C18_Witness ==
    /\ call.fn = "update" /\ call.manager = "Standard" /\ Len(call.updates) = 3
    /\ Evaluation_kind(call.updates[2].value)[1] = "MateIn"
    /\ call.updates[2].time > 0
    /\ call.updates[1].result > call.updates[3].result
    /\ call.updates[3].result > 0


(***************************************************************************)
(*                                                                         *)
(*                       The oracle (oracle.rs)                            *)
(*                                                                         *)
(* The oracle reads the piece counts, the squares of the bishops and of    *)
(* the kings.  BitBoards are sets of squares.                              *)
(***************************************************************************)
\* the greatest number of pieces besides the kings on a board given to the oracle
MaxOraclePieces == 3

\* chess::EDGES: the first and the last rank, the first and the last file
EdgesNone == {}

EDGES == {sq \in 0..63 : get_rank(sq) \in {0, 7} \/ get_file(sq) \in {0, 7}}

\* const CORNERS: (1 << 1) | (1 << 7) | (1 << 56) | (1 << 63)
CORNERS == {1, 7, 56, 63}

\* const fn dark_squares: board = 1; while board.count_ones() < 32 { board |= board << 2 }
RECURSIVE dark_squares_from(_)
dark_squares_from(bits) ==
    IF Cardinality(bits) >= 32 THEN bits
    ELSE dark_squares_from(bits \cup {sq + 2 : sq \in {x \in bits : x + 2 <= 63}})

dark_squares == dark_squares_from({0})

SquaresOf(bd, piece) == {p.square : p \in {q \in bd.pieces : q.piece = piece}}

\* oracle
oracle_board(bd) ==
    LET all_pieces == {p.square : p \in bd.pieces}
        white_pieces == {p.square : p \in {q \in bd.pieces : q.color = "White"}}
        bishops == SquaresOf(bd, "Bishop")
        knights == SquaresOf(bd, "Knight")
        kings == SquaresOf(bd, "King")
        n == Cardinality(all_pieces)
        one_piece_each == Cardinality(white_pieces) = 2
    IN  IF n = 2 THEN Some(DRAW)
        ELSE IF n = 3
        THEN IF bishops \cup knights # {} THEN Some(DRAW) ELSE None
        ELSE IF n = 4
        THEN IF Cardinality(knights) = 2 /\ kings \cap EDGES = {} THEN Some(DRAW)
             ELSE IF Cardinality(bishops) = 2 /\ Cardinality(bishops \cap dark_squares) # 1
             THEN Some(DRAW)
             ELSE IF Cardinality(bishops) = 2 /\ one_piece_each /\ kings \cap CORNERS = {}
             THEN Some(DRAW)
             ELSE IF Cardinality(knights) = 1 /\ Cardinality(bishops) = 1
                     /\ one_piece_each /\ kings \cap CORNERS = {}
             THEN Some(DRAW)
             ELSE None
        ELSE None

\* the boards given to the oracle: two kings that do not touch and at most
\* MaxOraclePieces knights, bishops and rooks on a few squares of the edge
\* and of the inside of the board: a1, b2, c3, d4 and h8 are dark, a2 is light
OracleSquares == {0, 8, 9, 18, 27, 63}
OraclePieces == {"Knight", "Bishop", "Rook"}
Empty == <<"Empty", "Empty">>
OracleBoard(wk, bk, placed) ==
    [pieces |-> {Piece("White", "King", wk), Piece("Black", "King", bk)} \cup
                {Piece(placed[sq][1], placed[sq][2], sq) :
                        sq \in {x \in OracleSquares \ {wk, bk} : placed[x] # Empty}},
     side_to_move |-> "White", status |-> "Ongoing"]

OracleInit ==
    /\ EngineIdle
    /\ \E wk \in OracleSquares, bk \in OracleSquares :
        /\ wk # bk /\ ~Touch(wk, bk)
        /\ \E placed \in [OracleSquares -> {Empty} \cup (Colors \X OraclePieces)] :
            /\ placed[wk] = Empty /\ placed[bk] = Empty
            /\ Cardinality({sq \in OracleSquares : placed[sq] # Empty}) <= MaxOraclePieces
            /\ call = [fn |-> "board", board |-> OracleBoard(wk, bk, placed)]

DoOracle ==
    /\ call.fn = "board"
    /\ call' = [fn |-> "oracle", board |-> call.board, result |-> oracle_board(call.board)]
    /\ UNCHANGED <<cache_table, t_op, t_log, svars, dvars>>

OracleNext == DoOracle

SpecOracle == OracleInit /\ [][OracleNext]_vars

\* the cases the oracle is said to call a draw
ListedDraw(bd) ==
    LET n == Cardinality(bd.pieces) IN
    \/ n = 2
    \/ n = 3 /\ \E p \in bd.pieces : p.piece \in {"Bishop", "Knight"}
    \/ /\ n = 4
       /\ Cardinality(SquaresOf(bd, "Knight")) = 2
       /\ \A sq \in SquaresOf(bd, "King") :
            get_rank(sq) \in 1..6 /\ get_file(sq) \in 1..6

MaxGoDepth == 2
\* the number of go commands in one behaviour
MaxSearches == 1

\* Duration::new(u64::MAX, 999_999_999), scaled to the integers at hand: a
\* time that does not elapse in the life of the process
DurationMAX == 2000000000
\* Duration::from_secs(5), the budget of a go without time control
FiveSeconds == 5

Elapses(duration) == duration < DurationMAX \div 2

TimeControls == {"MoveTime", "TimeLeft", "None", "Infinite"}
\* the times a go command carries
GoTimes == {0, MaxInterval}
\* the moves and the values an iteration can report
DriverMoves == {1, 2}
DriverValues == {100, mate_in(1)}

Ok(result) == [ok |-> TRUE, result |-> result]
Err(e) == [ok |-> FALSE, err |-> e]

\* LunaticSearchState::deepen: what one call can return.  The root is
\* searched one ply deeper at each call until max_depth; a root without
\* legal moves is NoMoves; a raised terminator is Terminated, when the
\* search gets to poll it.
deepen(w, term) ==
    (IF term THEN {Err("Terminated")} ELSE {}) \cup
    (IF w.depth >= MaxGoDepth THEN {Err("MaxDepth")}
     ELSE IF ~w.has_moves THEN {Err("NoMoves")}
     ELSE {Ok([depth |-> w.depth + 1, mv |-> mv, value |-> value]) :
                mv \in DriverMoves, value \in DriverValues})

\* main(), UciMessage::Go: the time manager of the time control
GoTimeManager(time_control, time) ==
    IF time_control = "MoveTime"
    THEN [manager |-> "Fixed", tm |-> FixedTimeManager_new(time)]
    ELSE IF time_control = "TimeLeft"
    THEN [manager |-> "Standard", tm |-> FixedTimeManager_new(time)]
    ELSE IF time_control = "None"
    THEN [manager |-> "Fixed", tm |-> FixedTimeManager_new(FiveSeconds)]
    ELSE [manager |-> "Fixed", tm |-> FixedTimeManager_new(DurationMAX)]

\* EngineSearch::new
EngineSearch_new(time_manager) ==
    [time_manager |-> time_manager, time_left |-> DurationMAX,
     search_terminated |-> FALSE, search_result |-> None]

\* main(), UciMessage::Go with begin_think: a new terminator and new
\* channels, the thinker takes the SearchParams and builds its search.
\* The GUI sends go when no search is active.
Go ==
    /\ main_pc = "select" /\ search = None /\ worker.pc = "idle"
    /\ uci.searches < MaxSearches
    /\ \E time_control \in TimeControls, time \in GoTimes, has_moves \in BOOLEAN :
        /\ search' = Some(EngineSearch_new(GoTimeManager(time_control, time)))
        /\ worker' = [pc |-> "deepen", has_moves |-> has_moves, depth |-> 0,
                      search_result |-> None]
        /\ uci' = [searches |-> uci.searches + 1, time_control |-> time_control,
                   bestmoves |-> <<>>, completed |-> None,
                   sent |-> <<>>, output |-> <<>>]
    /\ terminator' = FALSE
    /\ info_channel' = <<>>
    /\ search_stream' = <<>>
    /\ UNCHANGED main_pc

\* main(), Event::EngineSearchUpdate: the lines printed
InfoLine(result) == [line |-> "info", result |-> result]
BestmoveLine(mv) == [line |-> "bestmove", mv |-> mv]

KeepFirst(old, result) == IF old = None THEN Some(result) ELSE old

\* search_result = Some(result)
KeepLast(old, result) == Some(result)

\* the thinker: one turn of the loop around search.deepen(&terminator)
WorkerDeepen ==
    /\ worker.pc = "deepen"
    /\ \E r \in deepen(worker, terminator) :
        IF r.ok
        THEN /\ info_channel' = Append(info_channel, r.result)
             /\ worker' = [worker EXCEPT !.depth = @ + 1,
                                         !.search_result = KeepLast(@, r.result)]
             /\ uci' = [uci EXCEPT !.completed = Some(r.result),
                                   !.sent = Append(@, r.result)]
        ELSE IF r.err = "NoMoves"
        THEN /\ worker' = [worker EXCEPT !.depth = @ + 1]
             /\ UNCHANGED <<info_channel, uci>>
        ELSE /\ worker' = [worker EXCEPT !.pc = "send"]
             /\ UNCHANGED <<info_channel, uci>>
    /\ UNCHANGED <<terminator, search_stream, search, main_pc>>

\* the thinker: resolver.send(search_result) meets the recv() of
\* SearchRequest::terminate; the caller of terminate() stores the result
WorkerResolve ==
    /\ worker.pc = "send" /\ main_pc \in {"recv_poll", "recv_stop"}
    /\ search' = Some([search[1] EXCEPT !.search_result = worker.search_result,
                                        !.search_terminated = TRUE])
    /\ worker' = [worker EXCEPT !.pc = "idle"]
    /\ main_pc' = IF main_pc = "recv_poll" THEN "tail" ELSE "select"
    /\ UNCHANGED <<terminator, info_channel, search_stream, uci>>

\* the forwarding thread of EngineSearch::new; once main() has dropped the
\* EngineSearch the stream has no receiver and what is sent to it is lost
Forward ==
    /\ info_channel # <<>>
    /\ search_stream' = IF search = None THEN search_stream
                        ELSE Append(search_stream, Head(info_channel))
    /\ info_channel' = Tail(info_channel)
    /\ UNCHANGED <<worker, terminator, search, main_pc, uci>>

\* EngineSearch::poll, a result arrives before the timeout: SearchInfo
PollRecv ==
    /\ main_pc = "select" /\ search # None /\ ~search[1].search_terminated
    /\ search_stream # <<>>
    /\ \E elapsed \in 0..MaxTime :
        LET es == search[1]
            r == TimeManager_update(es.time_manager.manager, es.time_manager.tm,
                                    Head(search_stream).value, elapsed)
        IN  search' = Some([es EXCEPT !.time_manager.tm = r[1], !.time_left = r[2]])
    /\ search_stream' = Tail(search_stream)
    /\ uci' = [uci EXCEPT !.output = Append(@, InfoLine(Head(search_stream)))]
    /\ UNCHANGED <<worker, terminator, info_channel, main_pc>>

\* EngineSearch::poll, the timeout comes first: SearchRequest::terminate
\* raises the terminator and waits in recv()
PollTimeout ==
    /\ main_pc = "select" /\ search # None /\ ~search[1].search_terminated
    /\ search_stream = <<>>
    /\ Elapses(search[1].time_left)
    /\ terminator' = TRUE
    /\ main_pc' = "recv_poll"
    /\ UNCHANGED <<worker, info_channel, search_stream, search, uci>>

\* EngineSearch::poll once the search is terminated: the results left in
\* the stream, then the search result (bestmove), then Finished
PollTail ==
    /\ search # None
    /\ main_pc = "tail" \/ (main_pc = "select" /\ search[1].search_terminated)
    /\ IF search_stream # <<>>
       THEN /\ search_stream' = Tail(search_stream)
            /\ uci' = [uci EXCEPT !.output = Append(@, InfoLine(Head(search_stream)))]
            /\ UNCHANGED search
       ELSE IF search[1].search_result # None
       THEN /\ uci' = [uci EXCEPT !.bestmoves = Append(@, search[1].search_result[1].mv),
                                  !.output = Append(@, BestmoveLine(search[1].search_result[1].mv))]
            /\ search' = Some([search[1] EXCEPT !.search_result = None])
            /\ UNCHANGED search_stream
       ELSE /\ search' = None
            /\ UNCHANGED <<search_stream, uci>>
    /\ main_pc' = "select"
    /\ UNCHANGED <<worker, terminator, info_channel>>

\* main(), UciMessage::Stop: EngineSearch::terminate
Stop ==
    /\ main_pc = "select" /\ search # None /\ ~search[1].search_terminated
    /\ terminator' = TRUE
    /\ main_pc' = "recv_stop"
    /\ UNCHANGED <<worker, info_channel, search_stream, search, uci>>

UciConst == UNCHANGED <<cache_table, t_op, t_log, svars, call>>

UciNext ==
    \/ Go /\ UciConst
    \/ Stop /\ UciConst
    \/ WorkerDeepen /\ UciConst
    \/ WorkerResolve /\ UciConst
    \/ Forward /\ UciConst
    \/ PollRecv /\ UciConst
    \/ PollTimeout /\ UciConst
    \/ PollTail /\ UciConst

UciInit == EngineIdle /\ call = NoCall

SpecUci == UciInit /\ [][UciNext]_vars

\* The threads run and the timer of tokio::time::timeout fires: every step
\* but a line of input is taken if it stays possible.
SpecUciFair ==
    /\ SpecUci
    /\ WF_vars(WorkerDeepen /\ UciConst)
    /\ WF_vars(WorkerResolve /\ UciConst)
    /\ WF_vars(Forward /\ UciConst)
    /\ WF_vars(PollRecv /\ UciConst)
    /\ WF_vars(PollTimeout /\ UciConst)
    /\ WF_vars(PollTail /\ UciConst)

\* the thinker has left its loop with a completed iteration
EndedWithResult == worker.pc \in {"send", "idle"} /\ uci.completed # None

\* one bestmove has been printed, the move of the last completed iteration
BestmovePrinted == uci.completed # None /\ uci.bestmoves = <<uci.completed[1].mv>>

AtMostTheBestmove == uci.bestmoves = <<>> \/ BestmovePrinted

\* C20 (as stated): whenever a search ends, by stop, by time-out or by the
\* thinker reaching max depth, having completed an iteration, one bestmove
\* with the move of the last completed iteration is eventually printed,
\* without further input.
C20_BestmoveEventually ==
    /\ []AtMostTheBestmove
    /\ EndedWithResult ~> BestmovePrinted

\* C20 (amended): the same of a search that ends by stop or by time-out, and
\* of a search with a time budget that reaches max depth; a go infinite that
\* has reached max depth prints its bestmove once stop has come.
C20_BestmoveEventuallyWithBudgetOrStop ==
    /\ []AtMostTheBestmove
    /\ (EndedWithResult /\ (uci.time_control # "Infinite" \/ terminator)) ~> BestmovePrinted

\* C20 witness: the bestmove of a search of two iterations under a clock
\* has been printed, and the thinker is back waiting for a search
C20_Witness ==
    /\ BestmovePrinted
    /\ uci.completed[1].depth = 2
    /\ uci.time_control = "TimeLeft"
    /\ worker.pc = "idle"


\* the info lines of the results, in their order
InfoLines(results) == [i \in DOMAIN results |-> InfoLine(results[i])]

\* C21: no result is dropped or delayed between thinker and driver: when
\* the bestmove of a search is printed, the lines printed for the search
\* are the info lines of every result the thinker sent, in the order sent,
\* and then the bestmove; nothing is printed after it.
C21_NoResultDropped ==
    (\E i \in DOMAIN uci.output : uci.output[i].line = "bestmove") =>
        uci.output = Append(InfoLines(uci.sent), BestmoveLine(uci.completed[1].mv))


(***************************************************************************)
(*                                                                         *)
(*        The killer slot of one ply (search/mod.rs, the beta cutoff)      *)
(*                                                                         *)
(* The quiet moves that cut off at a ply are pushed on the slot one after  *)
(* the other, over the iterations of a search.                             *)
(***************************************************************************)
\* the number of quiet cutoffs at the ply
MaxPushes == 4

\* the quiet moves that cut off
KillerMoves == 1..3

\* KillerTableEntry::new()
KillerInit ==
    /\ EngineIdle
    /\ call = [fn |-> "killer", entry |-> <<>>, pushes |-> <<>>]

\* if quiet { entry.retain(|&m| m != mv); entry.push_back(mv); .. }
DoKillerPush ==
    /\ call.fn = "killer"
    /\ Len(call.pushes) < MaxPushes
    /\ \E mv \in KillerMoves :
        call' = [fn |-> "killer", entry |-> KillerPush(call.entry, mv),
                 pushes |-> Append(call.pushes, mv)]
    /\ UNCHANGED <<cache_table, t_op, t_log, svars, dvars>>

KillerNext == DoKillerPush

SpecKiller == KillerInit /\ [][KillerNext]_vars

\* the places of the last push of each move, among the pushes
LastPlaces(pushes) ==
    {i \in DOMAIN pushes : \A j \in (i + 1)..Len(pushes) : pushes[j] # pushes[i]}

\* the (at most two) most recently pushed distinct moves, in push order
MostRecentDistinct(pushes) ==
    LET places == LastPlaces(pushes)
        last == SetMax(places)
    IN  IF places = {} THEN <<>>
        ELSE IF places = {last} THEN <<pushes[last]>>
        ELSE <<pushes[SetMax(places \ {last})], pushes[last]>>

\* C22: after any sequence of quiet cutoffs at a ply, the killer slot holds
\* at most two moves, never the same move twice, and they are the most
\* recently pushed distinct moves in push order.
C22_KillersMostRecentDistinct ==
    call.fn = "killer" =>
        /\ Len(call.entry) <= 2
        /\ \A i, j \in DOMAIN call.entry : i # j => call.entry[i] # call.entry[j]
        /\ call.entry = MostRecentDistinct(call.pushes)

\* C22 witness: a resident move was pushed again and went to the back, and
\* a third distinct move then dropped the oldest
C22_Witness ==
    /\ call.fn = "killer"
    /\ call.pushes = <<1, 2, 1, 3>>
    /\ call.entry = <<1, 3>>


(***************************************************************************)
(*                                                                         *)
(*      SortedMoveGenerator driven to exhaustion (moves.rs)                *)
(*                                                                         *)
(* A generator is built for a position with a cache entry or none and a    *)
(* killer slot, and next is called until it returns None, the history      *)
(* table changing between the calls as the searches of the children        *)
(* change it.                                                              *)
(***************************************************************************)
\* the number of changes of the history table between the calls
MaxBumps == 1

GenPositions == {21}
\* the moves the killer slot is filled with
GenKillers == {30, 32, 38, 39}
\* the history-table cells that differ between runs
GenHistoryKeys == {12, 13, 14}

KillerSlots ==
    {<<>>} \cup {<<a>> : a \in GenKillers} \cup
    {s \in {<<a, b>> : a \in GenKillers, b \in GenKillers} : s[1] # s[2]}

\* a table with an entry for the position, whose best move is pv_move
GenTable(bd, pv_move) ==
    IF pv_move = None THEN with_rounded_entries(CacheEntries)
    ELSE TableSet(with_rounded_entries(CacheEntries), get_hash(bd),
                  [kind |-> "Exact", value |-> 0, depth |-> 1, best_move |-> pv_move[1]])

GenInit ==
    /\ EngineIdle
    /\ \E bd \in GenPositions, killers \in KillerSlots,
          h \in [GenHistoryKeys -> 0..1] :
        \E pv_move \in {None} \cup {Some(new_legal(bd)[k].id) : k \in DOMAIN new_legal(bd)} :
            call = [fn |-> "gen", board |-> bd, pv_move |-> pv_move, killers |-> killers,
                    gen |-> SortedMoveGenerator_new(GenTable(bd, pv_move), killers, bd),
                    history_table |-> [k \in HistoryKeys |->
                                          IF k \in GenHistoryKeys THEN h[k] ELSE 0],
                    bumps |-> 0, emitted |-> <<>>, done |-> FALSE]

\* move_generator.next(&self.history_table)
DoGenNext ==
    /\ call.fn = "gen" /\ ~call.done
    /\ LET r == SortedMoveGenerator_next(call.gen, call.board, call.history_table) IN
       call' = IF r.mv = None THEN [call EXCEPT !.done = TRUE, !.gen = r.gen]
               ELSE [call EXCEPT !.gen = r.gen,
                        !.emitted = Append(@, [mv |-> r.mv[1],
                                               history_table |-> call.history_table])]
    /\ UNCHANGED <<cache_table, t_op, t_log, svars, dvars>>

\* self.history_table[..] += depth * depth, in the search of a child
DoGenHistory ==
    /\ call.fn = "gen" /\ ~call.done /\ call.bumps < MaxBumps
    /\ \E k \in GenHistoryKeys :
        call' = [call EXCEPT !.history_table[k] = @ + 4, !.bumps = @ + 1]
    /\ UNCHANGED <<cache_table, t_op, t_log, svars, dvars>>

GenNext == DoGenNext \/ DoGenHistory

SpecGen == GenInit /\ [][GenNext]_vars

\* a capture by the rules of chess: the move takes a piece off the board
IsCapture(bd, id) == Game[make_move_new(bd, id)].pieces < Game[bd].pieces

\* the stage a move belongs to: 0 the cache best move, 1 a capture with
\* SEE >= 0, 2 a killer, 3 a non-capturing move, 4 a capture with SEE < 0
StageOf(i) ==
    LET bd == call.board
        id == call.emitted[i].mv
    IN  IF i = 1 /\ call.pv_move # None THEN 0
        ELSE IF ~IsLegal(bd, id) THEN 2
        ELSE IF IsCapture(bd, id) THEN (IF MoveOf(bd, id).see >= 0 THEN 1 ELSE 4)
        ELSE IF \E k \in DOMAIN call.killers : call.killers[k] = id THEN 2
        ELSE 3

\* C23: next emits moves in stage order and never goes back to an earlier
\* stage: the cache best move, the captures with SEE >= 0 in non-increasing
\* SEE, the killers, the non-capturing moves in non-increasing history
\* counter as read at each call, the captures with SEE < 0 in
\* non-increasing SEE.
C23_StagesInOrder ==
    call.fn = "gen" =>
        \A i, j \in DOMAIN call.emitted :
            i < j =>
                LET bd == call.board
                    a == call.emitted[i]
                    b == call.emitted[j]
                IN  /\ StageOf(i) <= StageOf(j)
                    /\ (StageOf(i) = StageOf(j) /\ StageOf(i) \in {1, 4}) =>
                            MoveOf(bd, a.mv).see >= MoveOf(bd, b.mv).see
                    /\ (StageOf(i) = 3 /\ StageOf(j) = 3) =>
                            a.history_table[MoveOf(bd, a.mv).hk] >=
                            a.history_table[MoveOf(bd, b.mv).hk]


\* C24: with a legal cache best move or none, the moves next yields until
\* None are the legal moves of the position, each exactly once, and nothing
\* else, whatever the killer slot and the history table hold.
C24_EveryLegalMoveOnce ==
    (call.fn = "gen" /\ call.done) =>
        /\ \A i \in DOMAIN call.emitted : IsLegal(call.board, call.emitted[i].mv)
        /\ \A i, j \in DOMAIN call.emitted :
                i # j => call.emitted[i].mv # call.emitted[j].mv
        /\ \A k \in DOMAIN new_legal(call.board) :
                \E i \in DOMAIN call.emitted : call.emitted[i].mv = new_legal(call.board)[k].id


(***************************************************************************)
(*                                                                         *)
(*          static_exchange_evaluation (moves.rs)                          *)
(*                                                                         *)
(* What the function reads of the board is the piece on the destination    *)
(* square and the pieces that bear on it.  These are `guards`, a sequence  *)
(* of [color, piece, behind]: the place in the sequence stands for the     *)
(* piece's square (to_square takes the least), guards[1] is the capturing  *)
(* piece, and `behind` is the place of the guard that stands between a     *)
(* sliding piece and the square (0 when the line is open).  A BitBoard is  *)
(* a set of places; `blockers` is kept as the set of guards taken off.     *)
(***************************************************************************)
\* the greatest number of guards besides the capturing piece
MaxGuards == 3

\* chess::ALL_PIECES, in its order
ALL_PIECES_ORDER == <<"Pawn", "Knight", "Bishop", "Rook", "Queen", "King">>

\* StandardEvaluator::piece_value
piece_value(piece) == from_centipawns(piece_values[piece])

\* get_rook_moves(sq, blockers) & (rooks | queens) | get_bishop_moves(sq, blockers)
\* & (bishops | queens): the sliding guards with an open line to the square
SlidingGuards(guards, removed) ==
    {i \in DOMAIN guards :
        /\ guards[i].piece \in {"Bishop", "Rook", "Queen"}
        /\ guards[i].behind = 0 \/ guards[i].behind \in removed}

\* guards_mask, attacker_mask, defender_mask on the board as it stands: the
\* kings, knights and pawns that bear on the square and the sliders with an
\* open line
FirstGuards(guards) ==
    {i \in DOMAIN guards : guards[i].piece \in {"King", "Knight", "Pawn"}}
        \cup SlidingGuards(guards, {})

OfColor(guards, color) == {i \in DOMAIN guards : guards[i].color = color}

SymDiff(a, b) == (a \ b) \cup (b \ a)

\* for &piece in &ALL_PIECES { .. defenders.to_square() .. break }, from the
\* last piece kind down
MostValuable(guards, set) ==
    LET kind == CHOOSE k \in DOMAIN ALL_PIECES_ORDER :
                    /\ \E i \in set : guards[i].piece = ALL_PIECES_ORDER[k]
                    /\ \A j \in DOMAIN ALL_PIECES_ORDER :
                            (\E i \in set : guards[i].piece = ALL_PIECES_ORDER[j]) => j <= k
    IN  CHOOSE i \in set :
            /\ guards[i].piece = ALL_PIECES_ORDER[kind]
            /\ \A x \in set : guards[x].piece = ALL_PIECES_ORDER[kind] => i <= x

\* for &piece in &ALL_PIECES { .. defenders.to_square() .. break }
LeastValuable(guards, set) ==
    LET kind == CHOOSE k \in DOMAIN ALL_PIECES_ORDER :
                    /\ \E i \in set : guards[i].piece = ALL_PIECES_ORDER[k]
                    /\ \A j \in DOMAIN ALL_PIECES_ORDER :
                            (\E i \in set : guards[i].piece = ALL_PIECES_ORDER[j]) => k <= j
    IN  CHOOSE i \in set :
            /\ guards[i].piece = ALL_PIECES_ORDER[kind]
            /\ \A x \in set : guards[x].piece = ALL_PIECES_ORDER[kind] => i <= x

\* while gains.len() > 1 { gain = gains.pop(); *null_gain = -gain.max(-*null_gain) }
RECURSIVE see_unwind(_)
see_unwind(gains) ==
    IF Len(gains) > 1
    THEN LET gain == gains[Len(gains)]
             null_gain == gains[Len(gains) - 1]
         IN  see_unwind(Append(SubSeq(gains, 1, Len(gains) - 2),
                               neg(Max(gain, neg(null_gain)))))
    ELSE gains[1]

\* the loop of static_exchange_evaluation; st holds its variables
RECURSIVE see_loop(_, _, _)
see_loop(guards, color, st) ==
    LET ours == st.side_to_move = color
        removed == st.removed \cup {st.attacker_square}
        guards_mask == SlidingGuards(guards, removed)
        joined(side) == (OfColor(guards, side) \ removed) \cap guards_mask
        mine == SymDiff(IF ours THEN st.attackers ELSE st.defenders, {st.attacker_square})
                    \cup joined(st.side_to_move)
        theirs == (IF ours THEN st.defenders ELSE st.attackers)
                    \cup joined(Other(st.side_to_move))
        previous_score == IF st.gains = <<>> THEN 0 ELSE st.gains[Len(st.gains)]
        gains == Append(st.gains, neg(previous_score) + st.square_piece_value)
    IN  IF theirs = {} THEN see_unwind(gains)
        ELSE see_loop(guards, color,
                [attackers |-> IF ours THEN mine ELSE theirs,
                 defenders |-> IF ours THEN theirs ELSE mine,
                 removed |-> removed,
                 gains |-> gains,
                 side_to_move |-> Other(st.side_to_move),
                 square_piece_value |-> piece_value(guards[st.attacker_square].piece),
                 attacker_square |-> LeastValuable(guards, theirs)])

\* static_exchange_evaluation(evaluator, board, capture), the capture being
\* guards[1] taking `victim`
static_exchange_evaluation(victim, guards) ==
    LET color == guards[1].color IN
    see_loop(guards, color,
        [attackers |-> OfColor(guards, color) \cap FirstGuards(guards),
         defenders |-> OfColor(guards, Other(color)) \cap FirstGuards(guards),
         removed |-> {},
         gains |-> <<>>,
         side_to_move |-> color,
         square_piece_value |-> piece_value(victim),
         attacker_square |-> 1])

\* the pieces of the exchanges given to the function
SeeVictims == {"Pawn", "Knight", "Queen"}
SeePieces == {"Pawn", "Rook", "Queen"}

\* a slider stands behind a guard that moves along its line: a rook behind
\* a rook or a queen, a queen behind a pawn, a rook or a queen
MayStandBehind(piece, front) ==
    \/ piece = "Rook" /\ front \in {"Rook", "Queen"}
    \/ piece = "Queen" /\ front \in {"Pawn", "Rook", "Queen"}

WellPlaced(guards) ==
    /\ \A i \in DOMAIN guards :
        /\ guards[i].behind < i
        /\ guards[i].behind # 0 =>
                MayStandBehind(guards[i].piece, guards[guards[i].behind].piece)
    /\ guards[1].behind = 0
    /\ \A i, j \in DOMAIN guards :
            (i # j /\ guards[i].piece = "King") =>
                ~(guards[j].piece = "King" /\ guards[j].color = guards[i].color)
    /\ \A i, j \in DOMAIN guards :
            (i # j /\ guards[i].behind # 0) => guards[i].behind # guards[j].behind

\* the well-placed sequences of n guards
RECURSIVE SeeGuards(_)
SeeGuards(n) ==
    IF n = 0 THEN {<<>>}
    ELSE {guards \in {Append(g, r) : g \in SeeGuards(n - 1),
                        r \in [color : Colors, piece : SeePieces, behind : 0..(n - 1)]} :
            WellPlaced(guards)}

SeeInit ==
    /\ EngineIdle
    /\ \E n \in 1..(MaxGuards + 1), victim \in SeeVictims :
        \E guards \in SeeGuards(n) :
            call = [fn |-> "capture", victim |-> victim, guards |-> guards]

DoSee ==
    /\ call.fn = "capture"
    /\ call' = [fn |-> "see", victim |-> call.victim, guards |-> call.guards,
                result |-> static_exchange_evaluation(call.victim, call.guards)]
    /\ UNCHANGED <<cache_table, t_op, t_log, svars, dvars>>

SeeNext == DoSee

SpecSee == SeeInit /\ [][SeeNext]_vars

\* the guards of a side that can capture on the square, those before them
\* being off the board
CanCapture(guards, removed, color) ==
    {i \in OfColor(guards, color) \ removed :
        guards[i].behind = 0 \/ guards[i].behind \in removed}

\* the rank of a piece among the capturers, the king last
RankOf(piece) == CHOOSE k \in DOMAIN ALL_PIECES_ORDER : ALL_PIECES_ORDER[k] = piece

\* the gain stack: the sides alternate, each capturing with its least
\* valuable capturer, until the side to move has none
RECURSIVE GainStack(_, _, _, _, _, _)
GainStack(guards, removed, color, capturer, on_square, previous) ==
    LET gain == piece_value(on_square) - previous
        off == removed \cup {capturer}
        next == CanCapture(guards, off, Other(color))
        least == CHOOSE i \in next :
                    \A x \in next :
                        \/ RankOf(guards[i].piece) < RankOf(guards[x].piece)
                        \/ RankOf(guards[i].piece) = RankOf(guards[x].piece) /\ i <= x
    IN  IF next = {} THEN <<gain>>
        ELSE <<gain>> \o GainStack(guards, off, Other(color), least,
                                   guards[capturer].piece, gain)

\* g[i] = -max(-g[i], g[i+1]), from the tail
RECURSIVE FoldFrom(_, _)
FoldFrom(g, i) ==
    IF i = Len(g) THEN g[i] ELSE -Max(-g[i], FoldFrom(g, i + 1))

\* C25: static_exchange_evaluation returns g[0] of the fold over the gain
\* stack; the result never exceeds the value of the piece first captured
\* and equals it when the square is undefended.
C25_SeeIsFoldOfGains ==
    call.fn = "see" =>
        LET g == GainStack(call.guards, {}, call.guards[1].color, 1, call.victim, 0) IN
        /\ call.result = FoldFrom(g, 1)
        /\ call.result <= piece_value(call.victim)
        /\ CanCapture(call.guards, {1}, Other(call.guards[1].color)) = {} =>
                call.result = piece_value(call.victim)

\* C25 witness: a pawn takes a queen that a pawn and a queen defend, and a
\* rook attacks the square with it: the defender takes back with the pawn,
\* the gains are 900, -800, 900, -400 and the result is 800
C25_Witness ==
    /\ call.fn = "see"
    /\ call.victim = "Queen"
    /\ call.guards = <<[color |-> "White", piece |-> "Pawn", behind |-> 0],
                       [color |-> "Black", piece |-> "Queen", behind |-> 0],
                       [color |-> "Black", piece |-> "Pawn", behind |-> 0],
                       [color |-> "White", piece |-> "Rook", behind |-> 0]>>
    /\ call.result = 800


\* a child of the move loop has returned a value above alpha from a search
\* reduced in depth or in window
ReducedSearchRaisedAlpha ==
    /\ Running /\ Top.fn = "search_position" /\ Top.pc = "child_ret"
    /\ ret # None /\ ~ret[1].err
    /\ -ret[1].value > Top.alpha
    /\ Top.reduced_depth < Top.depth \/ Top.narrowed_beta < Top.beta

\* the step searches the same move again, at full depth and full window
SearchesAgain ==
    /\ Len(stack') = Len(stack) + 1
    /\ LET f == stack[Len(stack)]
           child == stack'[Len(stack')]
       IN  /\ child.fn = "search_position" /\ child.pc = "enter"
           /\ child.board = f.child_board
           /\ child.depth = f.depth - 1
           /\ child.alpha = -f.beta /\ child.beta = -f.alpha

\* C26: whenever a child search raised alpha and was reduced in depth or in
\* window, the same move is searched again at full depth with the full
\* window before its value is used.
C26_ReducedSearchRepeated ==
    [][ReducedSearchRaisedAlpha => SearchesAgain]_vars


(***************************************************************************)
(* The search run with null-move pruning on and with it off.               *)
(***************************************************************************)
SpecNull == InitWith(NullPositions, BOOLEAN) /\ [][Next]_vars

\* a node of search_position goes past its early returns: it makes a null
\* move or starts its move loop
PastEarlyReturns ==
    /\ Running /\ Top.fn = "search_position" /\ Top.pc = "enter"
    /\ Len(stack') >= Len(stack)
    /\ stack'[Len(stack)].pc \in {"null_ret", "loop"}

\* the null move is made iff pruning is on, the side to move owns a slider
\* and is not in check; its child has the window [-beta, -(beta - 1)]
NullMoveDecided ==
    LET f == stack'[Len(stack)] IN
    /\ f.pc = "null_ret" <=>
            /\ options.null_move_pruning
            /\ Game[f.board].sliders
            /\ ~in_check_of(f.board)
    /\ f.pc = "null_ret" =>
            /\ Len(stack') = Len(stack) + 1
            /\ stack'[Len(stack')].alpha = -f.beta
            /\ stack'[Len(stack')].beta = -(f.beta - 1)

\* the null-move child has returned a score
NullMoveReturned ==
    /\ Running /\ Top.fn = "search_position" /\ Top.pc = "null_ret"
    /\ ret # None /\ ~ret[1].err

\* the node returns the negated score at once iff it is >= beta; otherwise
\* alpha, beta and the history stack (and the cache, if asked) are as
\* before the null move
NullMoveUsed(with_cache) ==
    LET f == Top
        score == -ret[1].value
    IN  IF score >= f.beta
        THEN /\ stack' = Pop(stack)
             /\ ret' # None /\ ret'[1].value = score
        ELSE /\ Len(stack') = Len(stack)
             /\ stack'[Len(stack)].pc = "loop"
             /\ stack'[Len(stack)].alpha = f.alpha
             /\ stack'[Len(stack)].beta = f.beta
             /\ history' = f.before[1].history
             /\ with_cache => cache_table' = f.before[1].cache_table

\* C27 (as stated): a null-move search is made at a node that gets to it
\* iff null_move_pruning is on, the side to move owns a rook, bishop or
\* queen and is not in check; its window is [beta - 1, beta]; the node
\* returns the negated score at once iff it is >= beta, and otherwise
\* alpha, beta, the cache and the history stack are as before the null move.
C27_NullMoveLeavesCache ==
    [][/\ PastEarlyReturns => NullMoveDecided
       /\ NullMoveReturned => NullMoveUsed(TRUE)]_vars

\* C27 (amended): the same, but for the cache, which keeps what the search
\* of the null-move child stored in it.
C27_NullMove ==
    [][/\ PastEarlyReturns => NullMoveDecided
       /\ NullMoveReturned => NullMoveUsed(FALSE)]_vars

\* C27 witness: a null-move child has returned a score below beta, the node
\* is at its move loop with the history stack as before, and the cache
\* holds what the child's search stored
C27_Witness ==
    /\ Running /\ Top.fn = "search_position" /\ Top.pc = "loop"
    /\ Top.before # None /\ Top.index = 0 /\ Top.gen.captures = None
    /\ history = Top.before[1].history
    /\ cache_table # Top.before[1].cache_table


(***************************************************************************)
(*                                                                         *)
(*          The u8 arithmetic of search_position (mod.rs)                  *)
(*                                                                         *)
(* depth, ply_index, halfmove_clock and the options are u8.  An addition   *)
(* or subtraction that leaves 0..255 panics in a build with overflow       *)
(* checks and wraps in a build without them; `checks` is the build.        *)
(***************************************************************************)
U8 == 0..U8MAX

U8Ok(v) == [panic |-> FALSE, value |-> v]
U8Panic == [panic |-> TRUE, value |-> 0]

\* a + b on u8
u8_add(a, b, checks) ==
    IF a + b <= U8MAX THEN U8Ok(a + b)
    ELSE IF checks THEN U8Panic ELSE U8Ok((a + b) % (U8MAX + 1))

\* a - b on u8
u8_sub(a, b, checks) ==
    IF a >= b THEN U8Ok(a - b)
    ELSE IF checks THEN U8Panic ELSE U8Ok((a - b) % (U8MAX + 1))

\* u8::saturating_sub
saturating_sub(a, b) == IF a >= b THEN a - b ELSE 0

\* depth.saturating_sub(self.options.null_move_reduction + 1)
null_move_depth(d, reduction, checks) ==
    LET r == u8_add(reduction, 1, checks) IN
    IF r.panic THEN U8Panic ELSE U8Ok(saturating_sub(d, r.value))

\* reduced_depth of a move (mod.rs 278-288), `late` being the rest of the
\* test of a late move, and the depth reduced_depth - 1 its child is given
late_move_depth(d, reduction, late, checks) ==
    LET reduced_depth ==
            IF late /\ d > 3
            THEN IF reduction < d THEN u8_sub(d, reduction, checks) ELSE U8Ok(1)
            ELSE U8Ok(d)
    IN  [reduced_depth |-> reduced_depth,
         child |-> IF reduced_depth.panic THEN U8Panic
                   ELSE u8_sub(reduced_depth.value, 1, checks)]

\* the values the additions of one are given: a depth that a root depth
\* below max_depth leads to, a ply_index that has passed the read of the
\* killer table, a halfmove_clock that has passed draw_by_move_rule
U8Depths == 0..(U8MAX - 1)
U8Plies == 0..(U8MAX - 1)
U8Clocks == 0..(FiftyMoveClock - 1)

U8Init ==
    /\ EngineIdle
    /\ \E checks \in BOOLEAN :
        \/ \E d \in U8Depths, reduction \in U8 :
             call = [fn |-> "u8", op |-> "null_move", depth |-> d,
                     reduction |-> reduction, checks |-> checks]
        \/ \E d \in U8Depths \ {0}, reduction \in U8, late \in BOOLEAN :
             call = [fn |-> "u8", op |-> "late_move", depth |-> d,
                     reduction |-> reduction, late |-> late, checks |-> checks]
        \/ \E d \in U8Depths :
             call = [fn |-> "u8", op |-> "check_extension", depth |-> d, checks |-> checks]
        \/ \E ply_index \in U8Plies :
             call = [fn |-> "u8", op |-> "ply_index", ply_index |-> ply_index,
                     checks |-> checks]
        \/ \E clock \in U8Clocks :
             call = [fn |-> "u8", op |-> "halfmove_clock", halfmove_clock |-> clock,
                     checks |-> checks]

\* the arithmetic of one node of search_position
DoU8 ==
    /\ call.fn = "u8"
    /\ call' =
        [fn |-> "u8_done", args |-> call,
         result |->
            CASE call.op = "null_move" ->
                    null_move_depth(call.depth, call.reduction, call.checks)
              [] call.op = "late_move" ->
                    late_move_depth(call.depth, call.reduction, call.late, call.checks).child
              [] call.op = "check_extension" -> u8_add(call.depth, 1, call.checks)
              [] call.op = "ply_index" -> u8_add(call.ply_index, 1, call.checks)
              [] call.op = "halfmove_clock" -> u8_add(call.halfmove_clock, 1, call.checks)]
    /\ UNCHANGED <<cache_table, t_op, t_log, svars, dvars>>

U8Next == DoU8

SpecU8 == U8Init /\ [][U8Next]_vars

\* C28: for every option value in 0..255 and every depth that a root depth
\* below max_depth leads to, no u8 operation of the search overflows or
\* underflows: the null-move child depth is max(0, depth -
\* null_move_reduction - 1), the depth of a late move is max(1, depth -
\* late_move_reduction), so that its child's depth is not below 0, and
\* depth + 1, ply_index + 1 and halfmove_clock + 1 are within 0..255.
C28_U8ArithmeticExact ==
    call.fn = "u8_done" =>
        LET a == call.args IN
        /\ ~call.result.panic
        /\ a.op = "null_move" =>
                call.result.value = Max(0, a.depth - a.reduction - 1)
        /\ (a.op = "late_move" /\ a.late /\ a.depth > 3) =>
                call.result.value = Max(1, a.depth - a.reduction) - 1
        /\ a.op = "late_move" => call.result.value >= 0
        /\ a.op = "check_extension" => call.result.value = a.depth + 1
        /\ a.op = "ply_index" => call.result.value = a.ply_index + 1
        /\ a.op = "halfmove_clock" => call.result.value = a.halfmove_clock + 1


\* C29: a node in check has its depth increased by one before the test of
\* depth 0, so search_position never gives quiescence_search a position in
\* which the side to move is in check.
C29_NoQuiescenceInCheck ==
    \A i \in DOMAIN stack :
        (i > 1 /\ stack[i].fn = "quiescence_search" /\ stack[i - 1].fn = "search_position")
            => ~in_check_of(stack[i].board)

\* C29 witness: a node in check was given depth 0 by its parent and is at
\* its move loop with depth 1
C29_Witness ==
    /\ Running /\ Len(stack) >= 2
    /\ Top.fn = "search_position" /\ Top.pc = "loop"
    /\ in_check_of(Top.board) /\ Top.depth = 1
    /\ stack[Len(stack) - 1].pc = "child_ret"
    /\ stack[Len(stack) - 1].reduced_depth = 1


(***************************************************************************)
(* The search from positions whose cache entries are met again.            *)
(***************************************************************************)
SpecCache == InitAt(CachePositions) /\ [][Next]_vars

\* a node of search_position gets to its cache probe: it is not terminated
\* and returns by none of the draw rules, the board status and the oracle
ProbesCache ==
    /\ Running /\ Top.fn = "search_position" /\ Top.pc = "enter"
    /\ s_pc' # "panic"
    /\ ~(ret' # None /\ ret'[1].err)
    /\ ~(~Top.root /\ draw_by_move_rule(Top.board, history, Top.halfmove_clock))
    /\ board_status(Top.board, new_legal(Top.board)) = "Ongoing"
    /\ ~(~Top.root /\ oracle(Top.board) # None)

\* the node returns v to its caller
ProbeReturns(v) ==
    /\ stack' = Pop(stack)
    /\ ret' # None /\ ~ret'[1].none /\ ret'[1].value = v

\* the node goes on with the window [a, b]: to quiescence_search, to its
\* null move or to its move loop (the root of depth 0 returns no move)
ProbeGoesOn(a, b) ==
    \/ /\ Len(stack') >= Len(stack)
       /\ stack'[Len(stack)].pc \in {"quiescence_ret", "null_ret", "loop"}
       /\ stack'[Len(stack)].alpha = a
       /\ stack'[Len(stack)].beta = b
    \/ /\ Top.root /\ Top.depth = 0
       /\ stack' = Pop(stack) /\ ret' # None /\ ret'[1].none

\* C30: in search_position a cache entry whose depth is smaller than the
\* node's depth (after the check extension) changes neither alpha nor beta
\* nor what the node returns; an entry at least as deep returns its value
\* at once when Exact, raises alpha to its value when LowerBound, lowers
\* beta to its value when UpperBound, and returns its value when alpha >=
\* beta after that.
C30_CacheProbe ==
    [][ProbesCache =>
        LET f == Top
            d == check_extension(in_check_of(f.board), f.depth)
            entry == TableGet(cache_table, get_hash(f.board))
        IN  IF entry = None \/ entry[1].depth < d
            THEN ProbeGoesOn(f.alpha, f.beta)
            ELSE LET e == entry[1]
                     a == IF e.kind = "LowerBound" THEN Max(f.alpha, e.value) ELSE f.alpha
                     b == IF e.kind = "UpperBound" THEN Min(f.beta, e.value) ELSE f.beta
                 IN  IF e.kind = "Exact" \/ a >= b
                     THEN ProbeReturns(e.value)
                     ELSE ProbeGoesOn(a, b)]_vars

\* C30 witness: a LowerBound entry at least as deep as the node has raised
\* alpha, and the node is at its first move with the narrower window
C30_Witness ==
    /\ Running /\ Top.fn = "search_position" /\ Top.pc = "loop"
    /\ Top.index = 0 /\ Top.value = EvalMIN
    /\ Top.alpha > Top.original_alpha /\ Top.alpha < Top.beta
    /\ LET entry == TableGet(cache_table, get_hash(Top.board)) IN
        /\ entry # None /\ entry[1].depth >= Top.depth
        /\ entry[1].kind = "LowerBound" /\ entry[1].value = Top.alpha


\* a step of the search writes to the cache
StoresEntry == Running /\ cache_table' # cache_table

\* the depth a node was given by its caller: the root by search(), a child
\* by the move loop or by the null move of its parent
GivenDepth ==
    IF Len(stack) = 1 THEN depth
    ELSE LET p == stack[Len(stack) - 1] IN
         IF p.pc = "null_ret" THEN Max(0, p.depth - (null_move_reduction + 1))
         ELSE p.reduced_depth - 1

\* the alpha a node was given by its caller
GivenAlpha ==
    IF Len(stack) = 1 THEN EvalMIN
    ELSE LET p == stack[Len(stack) - 1] IN
         IF p.pc = "null_ret" THEN -p.beta ELSE -p.narrowed_beta

\* the moves the node at the top has searched with their values, the one
\* that returns in this step included
SearchedNow ==
    IF Top.pc = "child_ret"
    THEN Append(Top.searched, [mv |-> Top.mv, value |-> -ret[1].value])
    ELSE Top.searched

\* C31: every entry the search stores has kind UpperBound iff value <= the
\* alpha the node was given (before the cache narrowed it), else LowerBound
\* iff value >= the node's beta, else Exact; its depth is the depth the
\* node was given, after the check extension; its value is the greatest of
\* the values of the moves searched and its best_move the first move that
\* gave it; it is stored by a node that ends its move loop, never by one
\* that returns by a draw, a finished game, the oracle, the cache,
\* quiescence or a null-move cutoff.
C31_StoredEntry ==
    [][StoresEntry =>
        /\ Top.fn = "search_position" /\ Top.pc \in {"loop", "child_ret"}
        /\ stack' = Pop(stack) /\ ret' # None
        /\ LET f == Top
               s == SearchedNow
               e == TableGet(cache_table', get_hash(f.board))
           IN  /\ e # None
               /\ \A h \in DOMAIN cache_table.table :
                    h # SlotOf(cache_table, get_hash(f.board)) =>
                        cache_table'.table[h] = cache_table.table[h]
               /\ e[1].value = ret'[1].value
               /\ s # <<>>
               /\ \A i \in DOMAIN s : s[i].value <= e[1].value
               /\ \E i \in DOMAIN s :
                    /\ s[i].mv = e[1].best_move /\ s[i].value = e[1].value
                    /\ \A j \in 1..(i - 1) : s[j].value < e[1].value
               /\ e[1].kind = (IF e[1].value <= GivenAlpha THEN "UpperBound"
                               ELSE IF e[1].value >= f.beta THEN "LowerBound"
                               ELSE "Exact")
               /\ e[1].depth = check_extension(in_check_of(f.board), GivenDepth)]_vars

\* C31 witness: the root call of an iteration of depth 2 or more has
\* returned and the cache holds the entry it stored: Exact, of the depth of
\* the iteration, with the value and the move returned
C31_Witness ==
    /\ s_pc = "call" /\ stack = <<>> /\ ret # None /\ ~ret[1].err /\ ~ret[1].none
    /\ depth >= 2
    /\ LET e == TableGet(cache_table, get_hash(board)) IN
        /\ e # None
        /\ e[1].depth = depth /\ e[1].kind = "Exact"
        /\ e[1].value = ret[1].value /\ e[1].best_move = ret[1].mv


\* C32: every call of search_position and quiescence_search is entered
\* with alpha < beta: the root call, the calls of the move loop with the
\* full and with the narrowed window, the calls that search a move again,
\* the null-move calls and the calls made after the cache has narrowed the
\* window.
C32_WindowOpenOnEntry ==
    \A i \in DOMAIN stack :
        stack[i].pc = "enter" => stack[i].alpha < stack[i].beta

\* C32 witness: a late move is searched to a reduced depth with the window
\* [alpha, alpha + 1] by a node whose window the cache has narrowed or its
\* earlier moves have raised
C32_Witness ==
    /\ Running /\ Len(stack) >= 2 /\ Top.pc = "enter"
    /\ LET p == stack[Len(stack) - 1] IN
        /\ p.pc = "child_ret" /\ p.reduced_depth < p.depth
        /\ p.alpha > p.original_alpha
        /\ Top.alpha = -(p.alpha + 1) /\ Top.beta = -p.alpha


(***************************************************************************)
(*                                                                         *)
(*     The principal variation rebuilt from the cache (mod.rs 113-135)     *)
(*                                                                         *)
(* The loop reads the board, the clock, the history and the cache.  It is  *)
(* started after a root call that returned a move of the board, with a     *)
(* cache in which some of the positions have an entry whose best move is   *)
(* a move of the position, as the search stores them.                      *)
(***************************************************************************)
\* the number of entries of the cache and the positions that may have one
PvCacheEntries == 8
PvPositions == {1, 2, 3, 4, 5}

PvEntry(mv) == [kind |-> "Exact", value |-> 0, depth |-> 1, best_move |-> mv]

\* the caches that hold, for each of the positions given, no entry or an
\* entry with one of its moves
RECURSIVE PvTables(_, _)
PvTables(t, positions) ==
    IF positions = {} THEN {t}
    ELSE LET bd == CHOOSE p \in positions : TRUE
             with_entry == {TableSet(t, get_hash(bd), PvEntry(new_legal(bd)[k].id)) :
                                k \in DOMAIN new_legal(bd)}
         IN  UNION {PvTables(t2, positions \ {bd}) : t2 \in {t} \cup with_entry}

PvInit ==
    /\ \E init_pos \in PvPositions :
         \E moves \in Walks(init_pos, MaxReplay) :
            LET r == Replay(init_pos, <<get_hash(init_pos)>>, moves) IN
            /\ board = r[1]
            /\ history = r[2]
            /\ halfmove_clock = (Len(r[2]) % 256) - 1
    /\ cache_table \in PvTables(with_rounded_entries(PvCacheEntries), PvPositions)
    /\ killer_table = [i \in 1..max_depth |-> <<>>]
    /\ history_table = [k \in HistoryKeys |-> 0]
    /\ sel_depth = 0
    /\ s_pc = "pv"
    /\ history_len = Len(history) /\ start_history = history
    /\ nodes = 0 /\ depth = 1
    /\ stack = <<>> /\ ret = None /\ handler = NoHandler
    /\ \E k \in DOMAIN new_legal(board) :
        pv = [mv |-> new_legal(board)[k].id, value |-> 0, principal_variation |-> <<>>,
              board |-> board, halfmove_clock |-> halfmove_clock,
              next_move |-> Some(new_legal(board)[k].id)]
    /\ options = [late_move_reduction |-> late_move_reduction,
                  null_move_pruning |-> null_move_pruning]
    /\ first_run = None
    /\ t_op = [op |-> "new"] /\ t_log = <<>>
    /\ HostIdle

PvNext == PvStep \/ PvEnd

SpecPv == PvInit /\ [][PvNext]_vars

\* the loop is run to its end
SpecPvFair == SpecPv /\ WF_vars(PvStep) /\ WF_vars(PvEnd)

\* the position after the first n moves of a variation from the root
RECURSIVE PvBoard(_, _)
PvBoard(variation, n) ==
    IF n = 0 THEN board ELSE make_move_new(PvBoard(variation, n - 1), variation[n])

\* the variation has been reported: it is not empty, it starts with the
\* move reported, and each later move is the cache's best move of the
\* position before it
PvReported ==
    /\ s_pc = "for" /\ handler.results # <<>>
    /\ LET r == handler.results[Len(handler.results)]
           v == r.principal_variation
       IN  /\ v # <<>> /\ v[1] = r.mv
           /\ \A n \in 2..Len(v) :
                LET e == TableGet(cache_table, get_hash(PvBoard(v, n - 1))) IN
                e # None /\ e[1].best_move = v[n]

\* C33: the reconstruction of the principal variation always ends: from
\* the root's best move it follows the best moves of the cache until a draw
\* by rule is found or a position has no entry; the variation is not empty
\* and starts with the move reported; a cycle of cached positions does not
\* keep it going for ever.
C33_PvTerminates == (s_pc = "pv") ~> PvReported

\* C33 witness: the cache holds the cycle 1 -> 2 -> 3 -> 4 -> 1 and the
\* variation reported went round it once, to the repetition of the root
C33_Witness ==
    /\ s_pc = "for" /\ handler.results # <<>>
    /\ board = 1
    /\ handler.results[1].principal_variation = <<1, 3, 4, 6>>
    /\ TableGet(cache_table, get_hash(1)) # None
    /\ TableGet(cache_table, get_hash(1))[1].best_move = 1


\* the move loop of the node at the top is at its end: next returns None
LoopExhausted ==
    /\ Running /\ Top.fn = "search_position" /\ Top.pc = "loop"
    /\ SortedMoveGenerator_next(Top.gen, Top.board, history_table).mv = None

\* C34: when the move loop of search_position ends, by exhaustion or by a
\* beta cutoff, best_move is set and the unwrap after the loop does not
\* fail: a node that has passed the test of the finished game has searched
\* a move.  (A cutoff follows the return of a child, which sets best_move.)
C34_BestMoveSet ==
    /\ LoopExhausted => (Top.best_move # None /\ Top.searched # <<>>)
    /\ \A i \in DOMAIN stack :
        (stack[i].fn = "search_position" /\ stack[i].pc \in {"loop", "child_ret", "null_ret"})
            => new_legal(stack[i].board) # <<>>

\* C34 witness: a node has searched its two moves, the loop is at its end
\* and best_move is set
C34_Witness ==
    /\ LoopExhausted
    /\ Len(Top.searched) = 2
    /\ Top.best_move # None


(***************************************************************************)
(* The search from positions with lines in which a side is checked twice.  *)
(***************************************************************************)
SpecChecks == InitAt(CheckPositions) /\ [][Next]_vars

\* C35: every access killer_table[ply_index] of the search is in bounds:
\* a node that gets to its move loop has a ply_index below
\* options.max_depth, the length of the table, for every root depth of
\* search() and every pattern of check extensions, and no access panics.
C35_KillerTableInBounds ==
    /\ s_pc # "panic"
    /\ \A i \in DOMAIN stack :
        (stack[i].fn = "search_position" /\ stack[i].pc \in {"loop", "child_ret", "null_ret"})
            => /\ Len(killer_table) = max_depth
               /\ stack[i].ply_index < max_depth


(***************************************************************************)
(* LunaticSearchState::new on long games (mod.rs 64-94).  The games are    *)
(* the four moves 1, 3, 4, 6 that lead from position 1 back to it, played  *)
(* up to MaxShuffles times, followed by a legal move list of at most       *)
(* MaxReplay moves.  `checks` tells whether the build checks overflow.     *)
(***************************************************************************)
MaxShuffles == 64

\* four moves without a pawn move or a capture that lead from 1 back to 1
ShuffleMoves == <<1, 3, 4, 6>>

Shuffle(k) == [i \in 1..(k * Len(ShuffleMoves)) |->
                    ShuffleMoves[((i - 1) % Len(ShuffleMoves)) + 1]]

\* let halfmove_clock = history.len() as u8 - 1
halfmove_clock_of(len, checks) == u8_sub(len % (U8MAX + 1), 1, checks)

\* the fields that new() computes from the move list
new_state(init_pos, moves, checks) ==
    LET r == Replay(init_pos, <<get_hash(init_pos)>>, moves)
        c == halfmove_clock_of(Len(r[2]), checks)
    IN  [panic |-> c.panic, board |-> r[1], history |-> r[2],
         halfmove_clock |-> c.value]

NewInit ==
    /\ EngineIdle
    /\ \E k \in 0..MaxShuffles, checks \in BOOLEAN :
        \E w \in Walks(1, MaxReplay) :
            call = [fn |-> "new", init_pos |-> 1, moves |-> Shuffle(k) \o w,
                    checks |-> checks]

DoNew ==
    /\ call.fn = "new"
    /\ call' = [fn |-> "new_done", args |-> call,
                result |-> new_state(call.init_pos, call.moves, call.checks)]
    /\ UNCHANGED <<cache_table, t_op, t_log, svars, dvars>>

NewNext == DoNew

SpecNew == NewInit /\ [][NewNext]_vars

\* the positions of a game: the initial one and the one after each move
RECURSIVE PositionsOf(_, _)
PositionsOf(b, moves) ==
    IF moves = <<>> THEN <<b>>
    ELSE IF Len(moves) = 1 THEN <<b, make_move_new(b, Head(moves))>>
    ELSE LET half == Len(moves) \div 2
             p == PositionsOf(b, SubSeq(moves, 1, half))
         IN p \o Tail(PositionsOf(p[Len(p)], SubSeq(moves, half + 1, Len(moves))))

\* the number of the last move of the game that is a pawn move or a
\* capture, 0 if there is none
LastReset(init_pos, moves) ==
    LET p == PositionsOf(init_pos, moves)
        resets == {i \in DOMAIN moves : move_resets_fifty_move_rule(moves[i], p[i])}
    IN  IF resets = {} THEN 0 ELSE CHOOSE i \in resets : \A j \in resets : j <= i

\* the hashes of the positions since the last such move, the one right
\* after it being the first
HashesSinceReset(init_pos, moves) ==
    LET p == PositionsOf(init_pos, moves)
        j == LastReset(init_pos, moves)
    IN  [i \in 1..(Len(p) - j) |-> get_hash(p[i + j])]

\* C36: after LunaticSearchState::new has replayed the move list, history
\* holds the hashes of all positions since the last clock-resetting move,
\* the current board included, and halfmove_clock = history.len() - 1,
\* which is 0 when the last replayed move reset the clock.
C36_HistoryAfterNew ==
    call.fn = "new_done" =>
        LET a == call.args
            r == call.result
        IN  /\ ~r.panic
            /\ r.board = PositionsOf(a.init_pos, a.moves)[Len(a.moves) + 1]
            /\ r.history = HashesSinceReset(a.init_pos, a.moves)
            /\ r.halfmove_clock = Len(r.history) - 1
            /\ (a.moves # <<>> /\ LastReset(a.init_pos, a.moves) = Len(a.moves))
                    => r.halfmove_clock = 0


\* the frame i of the stack was entered by a push on the history stack: it
\* is not the quiescence search that a node of depth 0 hands over to
PushesHistory(i) == i >= 2 /\ stack[i - 1].pc # "quiescence_ret"

\* the frame i was entered by a pawn move or a capture
ResetInto(i) ==
    /\ i >= 2 /\ stack[i - 1].pc = "child_ret"
    /\ move_resets_fifty_move_rule(stack[i - 1].mv, stack[i - 1].board)

\* the number of entries of the history stack since the last pawn move or
\* capture, the position right after it being the first of them: new() has
\* cleared the stack at such a move of the replayed game
EntriesSinceReset ==
    LET resets == {i \in DOMAIN stack : ResetInto(i)} IN
    IF resets = {} THEN Len(history)
    ELSE LET last == CHOOSE i \in resets : \A j \in resets : j <= i
         IN Cardinality({i \in last..Len(stack) : PushesHistory(i)})

\* the places of the history stack that hold the positions since that move
\* with the same side to move, the node's own entry excluded
SinceResetSameSide ==
    {Len(history) - r : r \in {q \in 1..(EntriesSinceReset - 1) : q % 2 = 0}}

\* the places that draw_by_move_rule compares with the board:
\* iter().rev().take(halfmove_clock).step_by(2).skip(1), from clock 4 on
compared(game_history, clock) ==
    IF clock >= RepetitionMinClock
    THEN {Len(game_history) - r :
            r \in {q \in 0..(Min(clock, Len(game_history)) - 1) : q % 2 = 0 /\ q >= 2}}
    ELSE {}

\* C37: at every non-root node the earlier positions that repetition
\* detection compares against are exactly the positions reached since the
\* last clock-resetting move with the same side to move, the position right
\* after that move included, whether the reset happened in the replayed
\* game or inside the search.
C37_ComparesSinceReset ==
    (Running /\ Top.pc = "enter" /\ ~Top.root /\ Top.halfmove_clock < FiftyMoveClock)
        => compared(history, Top.halfmove_clock) = SinceResetSameSide


(***************************************************************************)
(* StandardEvaluator::game_phase on the piece counts of a game, in u32     *)
(* (standard.rs 221-239).  A u32 is held as the integer of the same 32     *)
(* bits in two's complement, so that a wrapped value 2^32 - k is -k.       *)
(* `checks` tells whether the build checks overflow.                       *)
(***************************************************************************)
MaxPromoted == 1
I32MAX == 2147483647

\* 2^32 \div n and 2^32 % n, computed from 2^32 = 2 * I32MAX + 2
TwoPow32Div(n) == 2 * (I32MAX \div n) + ((2 * (I32MAX % n) + 2) \div n)
TwoPow32Mod(n) == (2 * (I32MAX % n) + 2) % n

\* a - b on u32, b being small
u32_sub(a, b, checks) ==
    IF a >= 0 /\ a < b THEN (IF checks THEN U8Panic ELSE U8Ok(a - b))
    ELSE U8Ok(a - b)

\* a * b on u32, b being small: a wrapped value overflows
u32_mul(a, b, checks) ==
    IF a < 0 /\ b > 1 THEN (IF checks THEN U8Panic ELSE U8Ok(a * b))
    ELSE U8Ok(a * b)

\* a / n on u32
u32_div(a, n) ==
    IF a >= 0 THEN a \div n ELSE TwoPow32Div(n) + ((TwoPow32Mod(n) + a) \div n)

\* the pieces in the order of game_phase_fn!
PhaseOrder == <<"Pawn", "Knight", "Bishop", "Rook", "Queen">>

\* INIT_PHASE $( - board.pieces(Piece::$piece).popcnt() * $weight)*, from
\* the i-th piece on
RECURSIVE phase_sub(_, _, _, _)
phase_sub(acc, counts, i, checks) ==
    IF i > Len(PhaseOrder) THEN U8Ok(acc)
    ELSE LET r == u32_sub(acc, counts[PhaseOrder[i]] * PhaseWeight[PhaseOrder[i]], checks)
         IN  IF r.panic THEN U8Panic ELSE phase_sub(r.value, counts, i + 1, checks)

\* game_phase for a board with the piece counts given
game_phase_u32(counts, checks) ==
    LET phase == phase_sub(INIT_PHASE, counts, 1, checks) IN
    IF phase.panic THEN U8Panic
    ELSE LET scaled == u32_mul(phase.value, MAX_PHASE, checks) IN
         IF scaled.panic THEN U8Panic
         ELSE U8Ok(u32_div(scaled.value + (INIT_PHASE \div 2), INIT_PHASE))

\* the number of pieces that must have come from a promotion
Promoted(counts) ==
    SumOver({"Knight", "Bishop", "Rook", "Queen"},
            [p \in {"Knight", "Bishop", "Rook", "Queen"} |->
                Max(0, counts[p] - 2 * PhaseCount[p])])

\* the piece counts of both sides together in a game with at most
\* MaxPromoted promotions, each promotion having cost a pawn of either side
PhaseCounts ==
    {c \in [Pawn : 0..(2 * PhaseCount["Pawn"]),
            Knight : 0..(2 * PhaseCount["Knight"] + MaxPromoted),
            Bishop : 0..(2 * PhaseCount["Bishop"] + MaxPromoted),
            Rook : 0..(2 * PhaseCount["Rook"] + MaxPromoted),
            Queen : 0..(2 * PhaseCount["Queen"] + MaxPromoted)] :
        /\ Promoted(c) <= MaxPromoted
        /\ c.Pawn <= 2 * PhaseCount["Pawn"] - 2 * Promoted(c)}

PhaseInit ==
    /\ EngineIdle
    /\ \E counts \in PhaseCounts, checks \in BOOLEAN :
        call = [fn |-> "phase", counts |-> counts, checks |-> checks]

DoGamePhase ==
    /\ call.fn = "phase"
    /\ call' = [fn |-> "phase_done", args |-> call,
                result |-> game_phase_u32(call.counts, call.checks)]
    /\ UNCHANGED <<cache_table, t_op, t_log, svars, dvars>>

PhaseNext == DoGamePhase

SpecPhase == PhaseInit /\ [][PhaseNext]_vars

\* P = P0 - sum of weight * count
PhaseLeft(counts) ==
    INIT_PHASE - SumOver({"Pawn", "Knight", "Bishop", "Rook", "Queen"},
                    [p \in {"Pawn", "Knight", "Bishop", "Rook", "Queen"} |->
                        counts[p] * PhaseWeight[p]])

\* C38: for every piece count reachable in a legal game, positions with
\* promoted pieces included, game_phase computes
\* floor((P * 256 + P0 / 2) / P0) with P = P0 - sum of weight * count,
\* without unsigned underflow, and yields a phase within 0..256.
C38_GamePhaseInRange ==
    call.fn = "phase_done" =>
        LET P == PhaseLeft(call.args.counts)
            r == call.result
        IN  /\ ~r.panic
            /\ P >= 0
            /\ r.value = (P * MAX_PHASE + (INIT_PHASE \div 2)) \div INIT_PHASE
            /\ r.value \in 0..MAX_PHASE


(***************************************************************************)
(* The table built by with_rounded_size for a size in bytes, and driven    *)
(* through set and get (table.rs 34-49, 61-87).                            *)
(***************************************************************************)
\* the sizes asked for are those of 0 to MaxSizeEntries entries, and those
\* one byte short of the next entry
MaxSizeEntries == 4

\* std::mem::size_of::<FullTableEntry>(): a u64 and a TableEntry, 8-aligned
FullTableEntrySize == 24

\* TranspositionTable::with_rounded_size
with_rounded_size(size) == with_rounded_entries(size \div FullTableEntrySize)

SizeInit ==
    /\ \E entries \in 0..MaxSizeEntries, rest \in {0, FullTableEntrySize - 1} :
       LET size == entries * FullTableEntrySize + rest IN
        /\ cache_table = with_rounded_size(size)
        /\ t_op = [op |-> "new", size |-> size]
    /\ t_log = <<>>
    /\ SearchIdle
    /\ HostIdle

SpecSize == SizeInit /\ [][TableNext]_vars

\* the number of slots of the table that hold an entry
Occupied(t) == Cardinality({i \in DOMAIN t.table : t.table[i] # None})

\* the hashfull value of the UCI driver
tt_filledness(t) == (t.len * 1000) \div capacity(t)

TableCounted ==
    /\ cache_table.len = Occupied(cache_table)
    /\ cache_table.len <= capacity(cache_table)
    /\ capacity(cache_table) >= 1
    /\ \E k \in 0..capacity(cache_table) : capacity(cache_table) = 2 ^ k
    /\ tt_filledness(cache_table) \in 0..1000
    /\ t_op.op = "new" =>
        LET entries == t_op.size \div FullTableEntrySize IN
        /\ capacity(cache_table) >= entries
        /\ capacity(cache_table) = 1 \/ capacity(cache_table) < 2 * entries

\* C39: after any sequence of set calls, len() equals the number of
\* occupied slots, never decreases and never exceeds capacity();
\* capacity() is a power of two >= 1 for every requested byte size, 0
\* included, so the hashfull value len * 1000 / capacity is defined and
\* within 0..1000.
C39_LenCountsOccupiedSlots ==
    /\ []TableCounted
    /\ [][cache_table'.len >= cache_table.len]_vars

\* C39 witness: a table of one slot (a size below that of two entries, 0
\* included) has been written twice: it is full, and its hashfull is 1000
C39_Witness ==
    /\ capacity(cache_table) = 1 /\ Len(t_log) = 2
    /\ cache_table.len = 1 /\ tt_filledness(cache_table) = 1000
    /\ t_log[1][1] # t_log[2][1]


\* the dark squares of the board: a1 is dark, and so is every square whose
\* rank and file differ by an even number
DarkSquares == {sq \in 0..63 : (get_rank(sq) + get_file(sq)) % 2 = 0}

SameColour(a, b) == (a \in DarkSquares) = (b \in DarkSquares)

\* a1, h1, a8, h8
CornerSquares == {0, 7, 56, 63}

\* the oracle has been asked about a position of four pieces with two bishops
TwoBishopsAsked ==
    /\ call.fn = "oracle"
    /\ Cardinality(call.board.pieces) = 4
    /\ Cardinality(SquaresOf(call.board, "Bishop")) = 2

\* C40: in the oracle's 4-piece branch dark_squares() is exactly the set of
\* the 32 dark squares and CORNERS is exactly {a1, h1, a8, h8}; hence the
\* test (bishops & dark_squares()).popcnt() != 1 is true exactly when both
\* bishops stand on squares of the same colour, and K+B+B v K with
\* opposite-coloured bishops is never declared a draw.
C40_BishopsTestedByColour ==
    /\ dark_squares = DarkSquares
    /\ CORNERS = CornerSquares
    /\ TwoBishopsAsked =>
        LET bishops == SquaresOf(call.board, "Bishop")
            owners == {p.color : p \in {q \in call.board.pieces : q.piece = "Bishop"}}
        IN  /\ (Cardinality(bishops \cap dark_squares) # 1)
                    <=> (\A a, b \in bishops : SameColour(a, b))
            /\ (Cardinality(owners) = 1 /\ \E a, b \in bishops : ~SameColour(a, b))
                    => call.result = None

=============================================================================
